---- MODULE Spec2Model ----
(***************************************************************************)
(* A model of the partial renderer of react-lightyear: the synchronous     *)
(* ReactDOMServerRenderer and the ReactDOMServerRendererAsync built on it  *)
(* (src/unnamed/part_000).                                                 *)
(*                                                                         *)
(* Markup is a sequence of tokens (Str); the length of a string is the sum *)
(* of the lengths of its tokens, so byte budgets count real characters.    *)
(* One JavaScript run-to-completion (a read call, the synchronous part of  *)
(* a readAsync call, a promise callback) is one action.  The operators     *)
(* that model the code take the world (a record of all program state) and  *)
(* give the world after the call.                                          *)
(***************************************************************************)
EXTENDS Integers, Sequences, FiniteSets, TLC

VARIABLES
  rens,      \* every renderer constructed so far (top-level and resumed)
  context,   \* context[c][threadID]: the shared context slots
  held,      \* thread ids handed out by the allocator and not released
  promises,  \* status of each external value a lazy node waits for
  futures,   \* promises created by the async renderer (pending subtrees)
  reads,     \* readAsync calls that have not settled yet
  uses,      \* context-slot accesses made under an id the allocator
             \* did not hold at the time (history)
  current    \* currentThreadID and ReactCurrentDispatcher.current

vars == <<rens, context, held, promises, futures, reads, uses, current>>

-----------------------------------------------------------------------------
(* Bounds *)

MaxThreads == 3     \* ids the allocator may hand out
MaxSessions == 2    \* top-level sessions constructed in one behaviour
MaxWaiting == 2     \* readAsync calls on one session that wait at the same time

Infinity == 100000  \* the budget readAsync(Infinity) is called with

ThreadIDs == 0 .. (MaxThreads - 1)
Ctxs == {"A", "B"}
Pids == {1, 2}
DefaultValue == "d"

-----------------------------------------------------------------------------
(* Strings *)

RECURSIVE StrLen(_)
StrLen(s) == IF s = <<>> THEN 0 ELSE Len(Head(s)) + StrLen(Tail(s))

RECURSIVE Join(_)
Join(ss) == IF ss = <<>> THEN <<>> ELSE Head(ss) \o Join(Tail(ss))

Last(s) == s[Len(s)]
Front(s) == SubSeq(s, 1, Len(s) - 1)

-----------------------------------------------------------------------------
(* Nodes of the tree handed to a renderer *)

Node(k, s, c, p, ch, fb) == [k |-> k, s |-> s, c |-> c, p |-> p, ch |-> ch, fb |-> fb]
NoNode == Node("none", "", "", 0, <<>>, <<>>)

Text(s) == Node("text", s, "", 0, <<>>, <<>>)
El(tag, ch) == Node("el", tag, "", 0, ch, <<>>)
Frag(ch) == Node("frag", "", "", 0, ch, <<>>)
Susp(fb, ch) == Node("susp", "", "", 0, ch, fb)
Prov(c, v, ch) == Node("prov", v, c, 0, ch, <<>>)
Cons(c) == Node("cons", "", c, 0, <<>>, <<>>)
Lazy(p, ch) == Node("lazy", "", "", p, ch, <<>>)
Throws == Node("throw", "", "", 0, <<>>, <<>>)
RetNull == Node("null", "", "", 0, <<>>, <<>>)
RetUndef == Node("undef", "", "", 0, <<>>, <<>>)
\* A component that renders nothing and, when a synchronous renderer other
\* than the first renders it, calls read(1) on the first renderer and drops
\* what it returns.
ReadsFirst == Node("reads", "", "", 0, <<>>, <<>>)

-----------------------------------------------------------------------------
(* The world: all program state, as one record *)

World ==
  [rens |-> rens, context |-> context, held |-> held, promises |-> promises,
   futures |-> futures, reads |-> reads, uses |-> uses, current |-> current]

Commit(w) ==
  /\ rens' = w.rens
  /\ context' = w.context
  /\ held' = w.held
  /\ promises' = w.promises
  /\ futures' = w.futures
  /\ reads' = w.reads
  /\ uses' = w.uses
  /\ current' = w.current

\* currentThreadID and ReactCurrentDispatcher.current while no read or
\* readAsync call runs.
NoCurrent == [threadID |-> 0, dispatcher |-> "none"]

-----------------------------------------------------------------------------
(* The thread id allocator (ReactThreadIDAllocator): allocThreadID returns   *)
(* some id not held by any live session, with no ordering among the free    *)
(* ids; a released id may be handed out again.                              *)

FreeIDs(w) == ThreadIDs \ w.held

\* allocThreadID() returning id, one of FreeIDs(w).
allocThreadID(w, id) == [w EXCEPT !.held = @ \cup {id}]

freeThreadID(w, id) == [w EXCEPT !.held = @ \ {id}]

\* A context slot is read or written under thread id rens[r].threadID.
Touch(w, r) ==
  LET id == w.rens[r].threadID
  IN  IF id \in w.held THEN w
      ELSE [w EXCEPT !.uses = @ \cup {[r |-> r, id |-> id]}]

-----------------------------------------------------------------------------
(* Frames *)

Frame(type, el, children, footer, fb, hasFb) ==
  [type |-> type, el |-> el, children |-> children, childIndex |-> 0,
   footer |-> footer, fallback |-> fb, hasFallback |-> hasFb]

\* A JavaScript array assignment a[i] = v, i counted from 0.
SetAt(a, i, v) == IF i + 1 <= Len(a) THEN [a EXCEPT ![i + 1] = v] ELSE Append(a, v)

Null == "null"

-----------------------------------------------------------------------------
(* ReactDOMServerRenderer *)

\* History of the latest read or readAsync call of a renderer: whether render
\* threw a thenable while suspenseDepth was 0 (met0) or above 0 (metDeep),
\* whether render threw anything else, and whether the call threw; for read,
\* whether the string it returned was shorter than the budget ("short") or not
\* ("full"), and whether the call found the frame stack empty.
NoCall == [met0 |-> FALSE, metDeep |-> FALSE, metError |-> FALSE, threw |-> FALSE,
           got |-> "none", emptied |-> FALSE]

\* History of the provider scopes of a renderer: open holds, innermost last,
\* what each pushProvider call that has not been answered by a popProvider
\* call overwrote (context c, thread id tid, value v), the entry index it
\* used and the position on the frame stack of the provider frame it was made
\* for; npop counts the popProvider calls, badPop records one that did not
\* answer the innermost open push, unbalanced a loop iteration at which
\* contextIndex + 1 was not the number of provider frames.
NoScopes == [open |-> <<>>, npop |-> 0, badPop |-> FALSE, unbalanced |-> FALSE]

\* History of the boundaries of a synchronous session: done holds the
\* boundaries whose fallback frame was pushed, faults what was seen that a
\* boundary must never show.
NoSubst == [done |-> {}, faults |-> {}]

\* History of the suspensions of a synchronous session: when render threw a
\* thenable inside a boundary, at is the stack position of the nearest
\* boundary frame, n the number of open providers above it, expect the value
\* each context slot of the session had outside those providers and kept the
\* buffers of the call below the one of that boundary; switched counts the
\* boundaries replaced by their fallback, faults records what the unwinding
\* did not leave as expected.
NoUnwind == [at |-> 0, n |-> 0, expect |-> [c \in Ctxs |-> DefaultValue], kept |-> <<>>,
             switched |-> 0, faults |-> {}]

\* History of suspenseDepth and outQueue of a renderer at the loop iterations
\* of its read and readAsync calls: what was seen that must not be, and the
\* largest suspenseDepth seen.
NoDepth == [faults |-> {}, max |-> 0]

\* History of the read calls of a renderer that returned a string: how many
\* there were, whether one returned while suspenseDepth was above 0 (open),
\* whether one returned while the call held a buffer besides out[0] (extra).
NoReturn == [n |-> 0, open |-> FALSE, extra |-> FALSE]

\* constructor(children, makeStaticMarkup): the renderer is appended to rens;
\* id is what allocThreadID() returned.
NewRenderer(w, kind, children, makeStaticMarkup, id) ==
  LET w1 == allocThreadID(w, id)
      ren == [kind |-> kind,
              threadID |-> id,
              stack |-> <<Frame("null", NoNode, children, <<>>, <<>>, FALSE)>>,
              exhausted |-> FALSE,
              previousWasTextNode |-> FALSE,
              makeStaticMarkup |-> makeStaticMarkup,
              suspenseDepth |-> 0,
              contextIndex |-> -1,
              contextStack |-> <<>>,
              contextValueStack |-> <<>>,
              outQueue |-> <<>>,
              isChildRenderer |-> FALSE,
              \* history
              children |-> children,
              allocated |-> id,
              parent |-> 0,
              future |-> 0,
              nfree |-> 0,
              nreads |-> 0,
              emitted |-> <<>>,
              nullReturned |-> FALSE,
              threw |-> FALSE,
              destroyed |-> FALSE,
              aborted |-> FALSE,
              pre |-> [c \in Ctxs |-> w.context[c][id]],
              startPromises |-> w.promises,
              wrote |-> {},
              inherited |-> {},
              call |-> NoCall,
              lifo |-> NoScopes,
              sub |-> NoSubst,
              queueFaults |-> {},
              empties |-> {},
              unwind |-> NoUnwind,
              depth |-> NoDepth,
              ret |-> NoReturn,
              cur |-> {},
              sawFallback |-> FALSE,
              pushed0 |-> <<>>,
              among |-> {}]
  IN  [w1 EXCEPT !.rens = Append(@, ren)]

\* History: pushProvider is about to be called for the provider whose frame
\* render pushes next.
NotePush(w, r, provider) ==
  LET ren == w.rens[r]
  IN  [w EXCEPT !.rens[r].lifo.open =
         Append(@, [c |-> provider.c, tid |-> ren.threadID,
                    v |-> w.context[provider.c][ren.threadID],
                    index |-> ren.contextIndex + 1,
                    frame |-> Len(ren.stack) + 1])]

\* History: popProvider(provider) took before to after; the frame of provider
\* was popped from the stack just before the call.
NotePop(before, after, r, provider) ==
  LET ren == before.rens[r]
      open == ren.lifo.open
      index == ren.contextIndex
      ok == /\ Len(open) > 0
            /\ index >= 0
            /\ index + 1 <= Len(ren.contextStack)
            /\ LET top == Last(open)
               IN  /\ top.index = index
                   /\ top.frame = Len(ren.stack) + 1
                   /\ top.c = provider.c
                   /\ ren.contextStack[index + 1] = top.c
                   /\ top.tid = ren.threadID
                   /\ after.context[top.c][top.tid] = top.v
                   /\ after.rens[r].contextIndex = index - 1
  IN  [after EXCEPT !.rens[r].lifo.open = IF Len(open) > 0 THEN Front(open) ELSE open,
                    !.rens[r].lifo.npop = @ + 1,
                    !.rens[r].lifo.badPop = @ \/ ~ok]

\* What suspenseDepth and outQueue of renderer ren show that they must not:
\* a suspenseDepth that is negative or is not the number of boundary frames on
\* the stack; for readAsync, a number of buffers other than suspenseDepth + 1,
\* an empty buffer, a buffer that starts with a future.
DepthFaults(ren) ==
  (IF ren.suspenseDepth >= 0 THEN {} ELSE {"negative"})
  \cup
  (IF ren.suspenseDepth =
        Cardinality({i \in 1 .. Len(ren.stack) : ren.stack[i].type = "suspense"})
   THEN {} ELSE {"depth"})
  \cup
  (IF ren.kind = "async" /\ Len(ren.outQueue) # ren.suspenseDepth + 1
   THEN {"buffers"} ELSE {})
  \cup
  (IF ren.kind = "async" /\ \E i \in 1 .. Len(ren.outQueue) : ren.outQueue[i] = <<>>
   THEN {"emptyBuffer"} ELSE {})
  \cup
  (IF ren.kind = "async"
      /\ \E i \in 1 .. Len(ren.outQueue) :
            ren.outQueue[i] # <<>> /\ ren.outQueue[i][1].f # 0
   THEN {"futureFirst"} ELSE {})

\* History: the loop of read or readAsync is between two iterations.
NoteDepth(w, r) ==
  LET ren == w.rens[r]
  IN  [w EXCEPT !.rens[r].depth.faults = @ \cup DepthFaults(ren),
                !.rens[r].depth.max = IF ren.suspenseDepth > @ THEN ren.suspenseDepth ELSE @]

\* setCurrentThreadID(this.threadID); ReactCurrentDispatcher.current =
\* Dispatcher, at the start of read and of readAsync.
ReadEnter(w, r) ==
  [w EXCEPT !.current = [threadID |-> w.rens[r].threadID, dispatcher |-> "Dispatcher"]]

\* Mutant: the finally block puts back the dispatcher only.
ReadFinally_DispatcherOnly(w, prev) ==
  [w EXCEPT !.current.dispatcher = prev.dispatcher]

\* The finally block of read and of readAsync: prevDispatcher and
\* prevThreadID are put back.
ReadFinally(w, prev) ==
  [w EXCEPT !.current = [threadID |-> prev.threadID, dispatcher |-> prev.dispatcher]]

\* History: the loop of a read or readAsync call on r is between two
\* iterations; cur records a moment at which the current thread id was not
\* the one of r or the dispatcher was not the one of the renderer.
NoteCurrent(w, r) ==
  IF w.current = [threadID |-> w.rens[r].threadID, dispatcher |-> "Dispatcher"]
  THEN w
  ELSE [w EXCEPT !.rens[r].cur = @ \cup {"notOwn"}]

\* History: a read or readAsync call on r took before to after; cur records
\* a call that did not leave the current thread id and the dispatcher as it
\* found them, and whether the call was made from inside another call.
NoteRestored(before, after, r) ==
  IF after.current = before.current
  THEN IF before.current # NoCurrent
       THEN [after EXCEPT !.rens[r].cur = @ \cup {"nested"}]
       ELSE after
  ELSE [after EXCEPT !.rens[r].cur = @ \cup {"notRestored"}]

\* History: the loop of readAsync on r is between two iterations; sawFallback
\* records a fallback frame on the frame stack.
NoteFallback(w, r) ==
  IF \E i \in 1 .. Len(w.rens[r].stack) :
        w.rens[r].stack[i].type = "null" /\ w.rens[r].stack[i].footer = <<"<!--/$-->">>
  THEN [w EXCEPT !.rens[r].sawFallback = TRUE]
  ELSE w

\* History: the loop of read or readAsync of a top-level renderer is at the
\* start of an iteration.
NoteLoop(w, r) ==
  LET ren == w.rens[r]
      providerFrames == {i \in 1 .. Len(ren.stack) : ren.stack[i].type = "provider"}
  IN  IF ~ren.isChildRenderer /\ ren.contextIndex + 1 # Cardinality(providerFrames)
      THEN [w EXCEPT !.rens[r].lifo.unbalanced = TRUE]
      ELSE w

\* Mutant: every session writes the slot of thread id 0.
pushProvider_OneSlot(w, r, provider) ==
  LET ren == w.rens[r]
      index == ren.contextIndex + 1
      c == provider.c
      previousValue == w.context[c][0]
      w1 == Touch(w, r)
  IN  [w1 EXCEPT !.rens[r].contextIndex = index,
                 !.rens[r].contextStack = SetAt(@, index, c),
                 !.rens[r].contextValueStack = SetAt(@, index, previousValue),
                 !.rens[r].wrote = @ \cup {c},
                 !.context[c][0] = provider.s]

\* Mutant: only the first provider of a session takes a new entry; a nested
\* one overwrites the innermost open entry.
pushProvider_ReusesTop(w, r, provider) ==
  LET ren == w.rens[r]
      index == IF ren.contextIndex < 0 THEN 0 ELSE ren.contextIndex
      c == provider.c
      threadID == ren.threadID
      previousValue == w.context[c][threadID]
      w1 == Touch(w, r)
  IN  [w1 EXCEPT !.rens[r].contextIndex = index,
                 !.rens[r].contextStack = SetAt(@, index, c),
                 !.rens[r].contextValueStack = SetAt(@, index, previousValue),
                 !.rens[r].wrote = @ \cup {c},
                 !.context[c][threadID] = provider.s]

pushProvider(w, r, provider) ==
  LET ren == w.rens[r]
      index == ren.contextIndex + 1
      c == provider.c
      threadID == ren.threadID
      previousValue == w.context[c][threadID]
      w1 == Touch(w, r)
  IN  [w1 EXCEPT !.rens[r].contextIndex = index,
                 !.rens[r].contextStack = SetAt(@, index, c),
                 !.rens[r].contextValueStack = SetAt(@, index, previousValue),
                 !.rens[r].wrote = @ \cup {c},
                 !.context[c][threadID] = provider.s]

\* Mutant: popProvider that leaves the slot as the provider set it.
popProvider_NoRestore(w, r, provider) ==
  LET index == w.rens[r].contextIndex
  IN  IF index < 0 THEN w
      ELSE [w EXCEPT !.rens[r].contextStack[index + 1] = Null,
                     !.rens[r].contextValueStack[index + 1] = Null,
                     !.rens[r].contextIndex = index - 1]

popProvider(w, r, provider) ==
  LET ren == w.rens[r]
      index == ren.contextIndex
      c == ren.contextStack[index + 1]
      previousValue == ren.contextValueStack[index + 1]
      w1 == Touch(w, r)
  IN  IF index < 0 \/ c = Null THEN w
      ELSE [w1 EXCEPT !.rens[r].contextStack[index + 1] = Null,
                      !.rens[r].contextValueStack[index + 1] = Null,
                      !.rens[r].contextIndex = index - 1,
                      !.context[c][ren.threadID] = previousValue]

RECURSIVE RestoreFrom(_, _, _)
RestoreFrom(w, r, index) ==
  IF index < 0 THEN w
  ELSE LET ren == w.rens[r]
           c == ren.contextStack[index + 1]
           previousValue == ren.contextValueStack[index + 1]
       IN  RestoreFrom([Touch(w, r) EXCEPT !.context[c][ren.threadID] = previousValue],
                       r, index - 1)

\* Mutant: the open providers are restored from entry 0 upwards, so the value
\* recorded by the innermost provider wins.
RECURSIVE RestoreUpFrom(_, _, _)
RestoreUpFrom(w, r, index) ==
  IF index > w.rens[r].contextIndex THEN w
  ELSE LET ren == w.rens[r]
           c == ren.contextStack[index + 1]
           previousValue == ren.contextValueStack[index + 1]
       IN  RestoreUpFrom([Touch(w, r) EXCEPT !.context[c][ren.threadID] = previousValue],
                         r, index + 1)

clearProviders_BottomUp(w, r) == RestoreUpFrom(w, r, 0)

clearProviders(w, r) == RestoreFrom(w, r, w.rens[r].contextIndex)

\* Mutant: destroy() without the exhausted check.
destroySync_Unguarded(w, r) ==
  LET w1 == [w EXCEPT !.rens[r].aborted = ~w.rens[r].exhausted, !.rens[r].exhausted = TRUE]
      w2 == clearProviders(w1, r)
      w3 == freeThreadID(w2, w2.rens[r].threadID)
  IN  [w3 EXCEPT !.rens[r].nfree = @ + 1]

\* destroy() of the synchronous renderer.
destroySync(w, r) ==
  IF ~w.rens[r].exhausted
  THEN LET w1 == [w EXCEPT !.rens[r].exhausted = TRUE, !.rens[r].aborted = TRUE]
           w2 == clearProviders(w1, r)
           w3 == freeThreadID(w2, w2.rens[r].threadID)
       IN  [w3 EXCEPT !.rens[r].nfree = @ + 1]
  ELSE w

-----------------------------------------------------------------------------
(* render *)

Rendered(w, out) == [w |-> w, out |-> out, exc |-> "none", pid |-> 0]
Thrown(w, exc, pid) == [w |-> w, out |-> <<>>, exc |-> exc, pid |-> pid]

PushFrame(w, r, frame) == [w EXCEPT !.rens[r].stack = Append(@, frame)]

\* createOpenTagMarkup and renderDOM for an element without properties.
renderDOM(w, r, element) ==
  LET ren == w.rens[r]
      isRootElement == Len(ren.stack) = 1 /\ ~ren.isChildRenderer
      open == IF ~ren.makeStaticMarkup /\ isRootElement
              THEN "<" \o element.s \o " data-reactroot=\"\">"
              ELSE "<" \o element.s \o ">"
      footer == "</" \o element.s \o ">"
      w1 == PushFrame(w, r, Frame("dom", element, element.ch, <<footer>>, <<>>, FALSE))
  IN  Rendered([w1 EXCEPT !.rens[r].previousWasTextNode = FALSE], <<open>>)

\* History: a consumer rendered by a resumed renderer read value v for context
\* c while no provider of c entered by that renderer itself was open.
NoteInherited(w, r, c, v) ==
  LET ren == w.rens[r]
  IN  IF ren.isChildRenderer
         /\ \A i \in (w.futures[ren.future].rc.contextIndex + 2) .. (ren.contextIndex + 1) :
               ren.contextStack[i] # c
      THEN [w EXCEPT !.rens[r].inherited = @ \cup {[c |-> c, v |-> v]}]
      ELSE w

\* Mutant: a component that returned undefined renders as nothing.
validateRenderResult_Silent(w) == Rendered(w, <<>>)

\* validateRenderResult(child, type) for child === undefined.
validateRenderResult(w) == Thrown(w, "error", 0)

\* render(child, context, parentNamespace), resolve() included.
render(w, r, child) ==
  LET ren == w.rens[r]
  IN  CASE child.k = "text" ->
             IF child.s = "" THEN Rendered(w, <<>>)
             ELSE IF ren.makeStaticMarkup THEN Rendered(w, <<child.s>>)
             ELSE IF ren.previousWasTextNode THEN Rendered(w, <<"<!-- -->", child.s>>)
             ELSE Rendered([w EXCEPT !.rens[r].previousWasTextNode = TRUE], <<child.s>>)
        [] child.k = "null" -> Rendered(w, <<>>)
        [] child.k = "reads" -> Rendered(w, <<>>)
        [] child.k = "undef" -> validateRenderResult(w)
        [] child.k = "throw" -> Thrown(w, "error", 0)
        [] child.k = "el" -> renderDOM(w, r, child)
        [] child.k = "frag" ->
             Rendered(PushFrame(w, r, Frame("null", NoNode, child.ch, <<>>, <<>>, FALSE)), <<>>)
        [] child.k = "susp" ->
             LET frame == Frame("suspense", NoNode, child.ch, <<"<!--/$-->">>, child.fb, TRUE)
                 w1 == PushFrame(w, r, frame)
             IN  Rendered([w1 EXCEPT !.rens[r].suspenseDepth = @ + 1], <<"<!--$-->">>)
        [] child.k = "prov" ->
             LET w1 == pushProvider(NotePush(w, r, child), r, child)
             IN  Rendered(PushFrame(w1, r, Frame("provider", child, child.ch, <<>>, <<>>, FALSE)),
                          <<>>)
        [] child.k = "cons" ->
             LET nextValue == w.context[child.c][ren.threadID]
                 w1 == NoteInherited(Touch(w, r), r, child.c, nextValue)
             IN  Rendered(PushFrame(w1, r, Frame("consumer", child, <<Text(nextValue)>>,
                                                 <<>>, <<>>, FALSE)), <<>>)
        [] child.k = "lazy" ->
             CASE w.promises[child.p] = "resolved" ->
                    Rendered(PushFrame(w, r, Frame("null", NoNode, child.ch, <<>>, <<>>, FALSE)),
                             <<>>)
               [] w.promises[child.p] = "rejected" -> Thrown(w, "error", 0)
               [] OTHER -> Thrown(w, "promise", child.p)

\* History: what render threw, at which suspenseDepth.
\* History: render took before to res for a child that resolved to null or
\* false ("null") or to undefined ("undef"): how many frames it pushed, what
\* it returned and what it threw.
NoteEmpty(before, res, r, child) ==
  IF child.k \notin {"null", "undef"} THEN res
  ELSE [res EXCEPT !.w.rens[r].empties = @ \cup
          {[k |-> child.k,
            pushed |-> Len(res.w.rens[r].stack) - Len(before.rens[r].stack),
            out |-> res.out,
            exc |-> res.exc]}]

NoteOutcome(res, r, suspenseDepth) ==
  CASE res.exc = "promise" /\ suspenseDepth = 0 ->
         [res EXCEPT !.w.rens[r].call.met0 = TRUE]
    [] res.exc = "promise" /\ suspenseDepth > 0 ->
         [res EXCEPT !.w.rens[r].call.metDeep = TRUE]
    [] res.exc = "error" ->
         [res EXCEPT !.w.rens[r].call.metError = TRUE]
    [] OTHER -> res

-----------------------------------------------------------------------------
(* read: the synchronous reader *)

\* Mutant: a thenable is taken as a suspension at any depth.
ReadCatch_AnyDepth(exc, suspenseDepth) ==
  CASE exc = "none" -> "none"
    [] exc = "promise" -> "suspended"
    [] OTHER -> "throw"

\* The catch around render in read: a thenable suspends the enclosing
\* boundary when there is one, anything else thrown leaves the call.
ReadCatch(exc, suspenseDepth) ==
  CASE exc = "none" -> "none"
    [] exc = "promise" /\ suspenseDepth > 0 -> "suspended"
    [] OTHER -> "throw"

\* The buffers of one read call are JavaScript strings; an array element that
\* was never assigned reads as undefined, which += turns into "undefined".
Hole == <<"<hole>">>
Undefined == <<"undefined">>
AsString(s) == IF s = Hole THEN Undefined ELSE s
OutGet(out, i) == IF i + 1 <= Len(out) THEN out[i + 1] ELSE Hole

RECURSIVE Holes(_)
Holes(n) == IF n <= 0 THEN <<>> ELSE <<Hole>> \o Holes(n - 1)

\* Mutant: everything is added to out[0], whatever the depth.
OutAdd_Unbuffered(out, i, s) ==
  IF Len(out) = 0 THEN <<Undefined \o AsString(s)>>
  ELSE [out EXCEPT ![1] = AsString(@) \o AsString(s)]

\* out[i] += s
OutAdd(out, i, s) ==
  IF i + 1 <= Len(out) THEN [out EXCEPT ![i + 1] = AsString(@) \o AsString(s)]
  ELSE out \o Holes(i - Len(out)) \o <<Undefined \o AsString(s)>>

\* Mutant: the buffer of a suspended boundary is flushed before the marker.
SwitchToFallback_KeepsBuffered(out, depth, buffered) ==
  OutAdd(OutAdd(out, depth, buffered), depth, <<"<!--$!-->">>)

\* What the buffers hold after the boundary at depth was found suspended: the
\* boundary's own buffer, already popped, is dropped.
SwitchToFallback(out, depth, buffered) == OutAdd(out, depth, <<"<!--$!-->">>)

\* What the buffers hold after a boundary that did not suspend was popped.
FlushBoundary(out, depth, buffered, footer) ==
  OutAdd(OutAdd(out, depth, buffered), depth, footer)

\* The state of one call of read: cs.pc is "loop" while the while loop runs,
\* then "return" or "throw"; from is history, the stack position of the frame
\* whose child threw the thenable that set suspended.
ReadCall(bytes) ==
  [bytes |-> bytes, out |-> <<<<>>>>, suspended |-> FALSE, pc |-> "loop", result |-> <<>>,
   from |-> 0]

\* Mutant: the frame pushed for a suspended boundary is the boundary frame
\* itself, started over.
fallbackFrame_Retry(frame) == [frame EXCEPT !.childIndex = 0]

\* frame.fallbackFrame of a boundary frame.
fallbackFrame(frame) ==
  Frame("null", NoNode, frame.fallback, <<"<!--/$-->">>, <<>>, FALSE)

\* History: the frame at position p of stack is named by the child indexes of
\* the frames beneath it, which do not change while it is on the stack, and by
\* which of them are fallback frames.
BoundaryId(stack, p) ==
  [i \in 1 .. (p - 1) |->
     <<stack[i].childIndex, stack[i].type = "null" /\ stack[i].footer = <<"<!--/$-->">>>>]

\* History: read replaced the boundary frame on top of before by what is on
\* top of the stack in after; cs is the state of the call before the step.
NoteSwitch(after, r, before, cs) ==
  LET p == Len(before)
      id == BoundaryId(before, p)
      stack == after.rens[r].stack
      faults == (IF id \in after.rens[r].sub.done THEN {"twice"} ELSE {})
                \cup (IF cs.suspended /\ cs.from >= p THEN {} ELSE {"uncaused"})
                \cup (IF Len(stack) = p /\ Front(stack) = Front(before) THEN {} ELSE {"moved"})
  IN  [after EXCEPT !.rens[r].sub.done = @ \cup {id},
                    !.rens[r].sub.faults = @ \cup faults]

\* History: read is about to resolve a child of the frame on top of the stack.
NoteResolve(w, r) ==
  LET ren == w.rens[r]
  IN  IF \E p \in 1 .. Len(ren.stack) :
            ren.stack[p].type = "suspense" /\ BoundaryId(ren.stack, p) \in ren.sub.done
      THEN [w EXCEPT !.rens[r].sub.faults = @ \cup {"retried"}]
      ELSE w

\* History: one loop iteration of read took the frame stack from before to
\* what it is in n.w.
NoteStep(before, n, r) ==
  LET stack == n.w.rens[r].stack
      ok == \/ Len(before) = 0 /\ stack = before
            \/ /\ Len(before) > 0
               /\ Len(stack) >= Len(before) - 1
               /\ Len(stack) <= Len(before) + 1
               /\ SubSeq(stack, 1, Len(before) - 1) = Front(before)
  IN  IF ok THEN n ELSE [n EXCEPT !.w.rens[r].sub.faults = @ \cup {"notTop"}]

ReadResult(w, cs) == [w |-> w, cs |-> cs]

\* History: render threw a thenable inside a boundary; stack is the frame
\* stack and out are the buffers of the call at that moment.
NoteSuspend(w, r, stack, out) ==
  LET ren == w.rens[r]
      open == ren.lifo.open
      boundaries == {i \in 1 .. Len(stack) : stack[i].type = "suspense"}
      at == IF boundaries = {} THEN 0
            ELSE CHOOSE i \in boundaries : \A j \in boundaries : j <= i
      abandoned == {i \in 1 .. Len(open) : open[i].frame > at}
      outside(c) ==
        LET mine == {i \in abandoned : open[i].c = c}
        IN  IF mine = {} THEN w.context[c][ren.threadID]
            ELSE open[CHOOSE i \in mine : \A j \in mine : i <= j].v
  IN  [w EXCEPT !.rens[r].unwind.at = at,
                !.rens[r].unwind.n = Cardinality(abandoned),
                !.rens[r].unwind.expect = [c \in Ctxs |-> outside(c)],
                !.rens[r].unwind.kept = SubSeq(out, 1, ren.suspenseDepth)]

\* History: read replaced the suspended boundary by its fallback frame, which
\* took the session to w and the buffers of the call to out.
NoteUnwound(w, r, out) ==
  LET ren == w.rens[r]
      u == ren.unwind
      d == Len(u.kept)
      faults ==
        (IF Len(ren.stack) = u.at
            /\ \A i \in 1 .. Len(ren.lifo.open) : ren.lifo.open[i].frame < u.at
            /\ ren.contextIndex + 1 = Len(ren.lifo.open)
         THEN {} ELSE {"providerLeft"})
        \cup
        (IF \A c \in Ctxs : w.context[c][ren.threadID] = u.expect[c]
         THEN {} ELSE {"value"})
        \cup
        (IF /\ d >= 1
            /\ Len(out) = d
            /\ \A i \in 1 .. (d - 1) : out[i] = u.kept[i]
            /\ out[d] = AsString(u.kept[d]) \o <<"<!--$!-->">>
         THEN {} ELSE {"outputLost"})
  IN  [w EXCEPT !.rens[r].unwind.switched = @ + 1,
                !.rens[r].unwind.faults = @ \cup faults]

\* Mutant: the loop stops one character before the budget is met.
KeepsRendering_OneLess(out0, bytes) == StrLen(out0) + 1 < bytes

\* The loop condition of read: out[0].length < bytes.
KeepsRendering(out0, bytes) == StrLen(out0) < bytes

\* The outcome for the renderer that rendered ReadsFirst of the read call it
\* made on the first renderer, which took w to nested: what that call threw
\* is thrown on.
NestedRead(w, nested) ==
  IF ~w.rens[1].exhausted /\ nested.rens[1].call.threw
  THEN Thrown(nested, "error", 0)
  ELSE Rendered(nested, <<>>)

RECURSIVE read(_, _, _)

\* this.render(child, ...) as called by read: the component ReadsFirst runs
\* its read call from inside it.
renderInRead(w, r, child) ==
  IF child.k = "reads" /\ r # 1 /\ w.rens[1].kind = "sync"
  THEN NestedRead(w, read(w, 1, 1))
  ELSE render(w, r, child)

\* One evaluation of the loop condition and, if it holds, one run of the body.
ReadIter(w, r, cs) ==
  LET ren == w.rens[r]
  IN  IF Len(cs.out) = 0 \/ cs.out[1] = Hole
      THEN ReadResult(w, [cs EXCEPT !.pc = "throw"])
      ELSE IF ~KeepsRendering(cs.out[1], cs.bytes)
      THEN ReadResult(w, [cs EXCEPT !.pc = "return", !.result = cs.out[1]])
      ELSE IF Len(ren.stack) = 0
      THEN LET w1 == [w EXCEPT !.rens[r].exhausted = TRUE]
               w2 == freeThreadID(w1, ren.threadID)
           IN  ReadResult([w2 EXCEPT !.rens[r].nfree = @ + 1],
                          [cs EXCEPT !.pc = "return", !.result = cs.out[1]])
      ELSE
      LET frame == Last(ren.stack)
      IN  IF cs.suspended \/ frame.childIndex >= Len(frame.children)
          THEN LET footer == frame.footer
                   w1 == [w EXCEPT !.rens[r].stack = Front(@),
                                   !.rens[r].previousWasTextNode =
                                       IF footer # <<>> THEN FALSE ELSE @]
               IN  CASE frame.type = "provider" ->
                          LET w2 == NotePop(w1, popProvider(w1, r, frame.el), r, frame.el)
                          IN  ReadResult(w2, [cs EXCEPT !.out =
                                OutAdd(@, w2.rens[r].suspenseDepth, footer)])
                     [] frame.type = "suspense" ->
                          LET depth == ren.suspenseDepth - 1
                              w2 == [w1 EXCEPT !.rens[r].suspenseDepth = depth]
                              buffered == IF Len(cs.out) = 0 THEN Hole ELSE Last(cs.out)
                              out1 == IF Len(cs.out) = 0 THEN cs.out ELSE Front(cs.out)
                          IN  IF cs.suspended
                              THEN ReadResult(
                                     NoteUnwound(
                                       NoteSwitch(PushFrame(w2, r, fallbackFrame(frame)), r,
                                                  ren.stack, cs),
                                       r, SwitchToFallback(out1, depth, buffered)),
                                     [cs EXCEPT !.suspended = FALSE,
                                                !.out = SwitchToFallback(out1, depth, buffered)])
                              ELSE ReadResult(w2,
                                     [cs EXCEPT !.out =
                                        FlushBoundary(out1, depth, buffered, footer)])
                     [] OTHER ->
                          ReadResult(w1, [cs EXCEPT !.out =
                                OutAdd(@, ren.suspenseDepth, footer)])
          ELSE LET child == frame.children[frame.childIndex + 1]
                   w1 == NoteResolve(
                           [w EXCEPT !.rens[r].stack[Len(ren.stack)].childIndex = @ + 1], r)
                   res == NoteOutcome(NoteEmpty(w1, renderInRead(w1, r, child), r, child),
                                      r, ren.suspenseDepth)
                   depth == res.w.rens[r].suspenseDepth
                   out1 == IF Len(cs.out) <= depth THEN Append(cs.out, <<>>) ELSE cs.out
                   caught == ReadCatch(res.exc, ren.suspenseDepth)
               IN  CASE caught = "none" ->
                          ReadResult(res.w, [cs EXCEPT !.out = OutAdd(out1, depth, res.out)])
                     [] caught = "suspended" ->
                          ReadResult(NoteSuspend(res.w, r, ren.stack, OutAdd(out1, depth, <<>>)),
                                     [cs EXCEPT !.suspended = TRUE,
                                                       !.from = Len(ren.stack),
                                                       !.out = OutAdd(out1, depth, <<>>)])
                     [] OTHER -> ReadResult(res.w, [cs EXCEPT !.pc = "throw"])

RECURSIVE ReadLoop(_, _, _)
ReadLoop(w, r, cs) ==
  IF cs.pc # "loop" THEN ReadResult(w, cs)
  ELSE LET n == NoteStep(w.rens[r].stack, ReadIter(NoteCurrent(NoteDepth(NoteLoop(w, r), r), r), r, cs), r)
       IN  ReadLoop(n.w, r, n.cs)

\* Mutant: previousWasTextNode is local to one call of read.
read_TextFlagPerCall(w, r, bytes) ==
  IF w.rens[r].exhausted
  THEN [w EXCEPT !.rens[r].nullReturned = TRUE]
  ELSE LET n == ReadLoop([w EXCEPT !.rens[r].previousWasTextNode = FALSE], r, ReadCall(bytes))
       IN  IF n.cs.pc = "throw"
           THEN [n.w EXCEPT !.rens[r].threw = TRUE]
           ELSE [n.w EXCEPT !.rens[r].emitted = @ \o n.cs.result,
                            !.rens[r].nreads = @ + 1]

\* History: the other synchronous sessions that are inside a provider when a
\* read call on r starts.
NoteAmong(w, r) ==
  [w EXCEPT !.rens[r].among = @ \cup
     {q \in 1 .. Len(w.rens) :
        /\ q # r
        /\ w.rens[q].kind = "sync"
        /\ ~w.rens[q].exhausted
        /\ w.rens[q].contextIndex >= 0}]

\* History: a read call on r returns out[0]; cs is the state of the call.
NoteReturn(w, r, cs) ==
  [w EXCEPT !.rens[r].ret.n = @ + 1,
            !.rens[r].ret.open = @ \/ w.rens[r].suspenseDepth > 0,
            !.rens[r].ret.extra = @ \/ Len(cs.out) # 1]

\* read(bytes): the world after the call; the history fields of the renderer
\* record what the call returned.
read(w, r, bytes) ==
  IF w.rens[r].exhausted
  THEN [w EXCEPT !.rens[r].nullReturned = TRUE]
  ELSE LET n == ReadLoop([ReadEnter(NoteAmong(w, r), r) EXCEPT !.rens[r].call = NoCall], r,
                         ReadCall(bytes))
       IN  NoteRestored(w,
             ReadFinally(
               IF n.cs.pc = "throw"
               THEN [n.w EXCEPT !.rens[r].threw = TRUE, !.rens[r].call.threw = TRUE]
               ELSE [NoteReturn(n.w, r, n.cs) EXCEPT
                                !.rens[r].emitted = @ \o n.cs.result,
                                !.rens[r].nreads = @ + 1,
                                !.rens[r].call.got =
                                   IF StrLen(n.cs.result) < bytes THEN "short" ELSE "full",
                                !.rens[r].call.emptied = n.w.rens[r].exhausted],
               w.current),
             r)

-----------------------------------------------------------------------------
(* ReactDOMServerRendererAsync: fragments, futures and the out queue *)

\* An element of a buffer of outQueue: a string, or the promise futures[f].
StrItem(str) == [f |-> 0, s |-> str]
FutItem(f) == [f |-> f, s |-> <<>>]

NoContext ==
  [threadID |-> 0, previousWasTextNode |-> FALSE, contextIndex |-> -1,
   contextStack |-> <<>>, contextValues |-> <<>>, contextValueStack |-> <<>>]

\* The promise renderEventually returns for a pending subtree: err.then(...).
ResumeFuture(owner, pid, child, rc, snap) ==
  [kind |-> "resume", owner |-> owner, pid |-> pid, child |-> child, rc |-> rc,
   st |-> "pending", val |-> <<>>, rid |-> 0, parts |-> <<>>, footer |-> <<>>,
   snap |-> snap]

\* The promise a finished boundary is rolled up into.
AllFuture(owner, parts, footer) ==
  [kind |-> "all", owner |-> owner, pid |-> 0, child |-> NoNode, rc |-> NoContext,
   st |-> "pending", val |-> <<>>, rid |-> 0, parts |-> parts, footer |-> footer,
   snap |-> [c \in Ctxs |-> Null]]

RECURSIVE FutureState(_, _)
FutureState(fs, f) ==
  IF fs[f].kind = "resume" THEN fs[f].st
  ELSE LET sts == {IF fs[f].parts[i].f = 0 THEN "resolved"
                   ELSE FutureState(fs, fs[f].parts[i].f) : i \in 1 .. Len(fs[f].parts)}
       IN  IF "rejected" \in sts THEN "rejected"
           ELSE IF "pending" \in sts THEN "pending"
           ELSE "resolved"

RECURSIVE FutureValue(_, _)
RECURSIVE JoinParts(_, _)
JoinParts(fs, parts) ==
  IF parts = <<>> THEN <<>>
  ELSE (IF Head(parts).f = 0 THEN Head(parts).s ELSE FutureValue(fs, Head(parts).f))
       \o JoinParts(fs, Tail(parts))

\* A variant of resolvePromisesWithFooter that drops the footer.
resolvePromisesWithFooter_NoFooter(fs, parts, footer) == JoinParts(fs, parts)

\* resolvePromisesWithFooter(promises, footer).then(markupArray => markupArray.join(''))
resolvePromisesWithFooter(fs, parts, footer) == JoinParts(fs, parts) \o footer

FutureValue(fs, f) ==
  IF fs[f].kind = "resume" THEN fs[f].val
  ELSE resolvePromisesWithFooter(fs, fs[f].parts, fs[f].footer)

IsPrefix(s, t) == Len(s) <= Len(t) /\ SubSeq(t, 1, Len(s)) = s

\* History: the fragments of a buffer in the order they were pushed, a
\* promise standing for itself.
RECURSIVE Flat(_)
Flat(buf) ==
  IF buf = <<>> THEN <<>>
  ELSE (IF Head(buf).f = 0 THEN Head(buf).s ELSE <<"#" \o ToString(Head(buf).f)>>)
       \o Flat(Tail(buf))

\* History: the same, a fulfilled promise replaced by its markup.
RECURSIVE Expand(_, _)
Expand(fs, buf) ==
  IF buf = <<>> THEN <<>>
  ELSE (IF Head(buf).f = 0 THEN Head(buf).s
        ELSE IF FutureState(fs, Head(buf).f) = "resolved"
        THEN FutureValue(fs, Head(buf).f)
        ELSE <<"#" \o ToString(Head(buf).f)>>)
       \o Expand(fs, Tail(buf))

\* A variant of pushToOutQueue that concatenates a string to the first string
\* of the buffer, past any promise queued in between.
pushToOutQueue_MergesIntoFirst(w, r, item) ==
  LET d == w.rens[r].suspenseDepth + 1
  IN  IF item.f # 0
      THEN [w EXCEPT !.rens[r].outQueue[d] = Append(@, item)]
      ELSE [w EXCEPT !.rens[r].outQueue[d][1].s = @ \o item.s]

\* pushToOutQueue(fragment): a string is concatenated to a trailing string,
\* anything else is appended.
pushToOutQueue(w, r, item) ==
  LET ren == w.rens[r]
      d == ren.suspenseDepth + 1
      lastIndex == Len(ren.outQueue[d])
  IN  IF item.f # 0
      THEN [w EXCEPT !.rens[r].outQueue[d] = Append(@, item)]
      ELSE IF ren.outQueue[d][lastIndex].f # 0
      THEN [w EXCEPT !.rens[r].outQueue[d] = Append(@, item)]
      ELSE [w EXCEPT !.rens[r].outQueue[d][lastIndex].s = @ \o item.s]

getClonedRenderContext(w, r) ==
  LET ren == w.rens[r]
  IN  [threadID |-> ren.threadID,
       previousWasTextNode |-> ren.previousWasTextNode,
       contextIndex |-> ren.contextIndex,
       contextStack |-> ren.contextStack,
       contextValues |-> [i \in 1 .. Len(ren.contextStack) |->
                            IF ren.contextStack[i] = Null THEN Null
                            ELSE w.context[ren.contextStack[i]][ren.threadID]],
       contextValueStack |-> ren.contextValueStack]

\* The try/catch of renderEventually around the outcome res of render.
renderEventuallyCatch(res, r, child, canSuspend) ==
  IF res.exc = "promise"
  THEN IF ~canSuspend THEN [w |-> res.w, item |-> StrItem(<<>>), exc |-> "error"]
       ELSE LET w1 == IF \E i \in 1 .. Len(res.w.rens[r].contextStack) :
                           res.w.rens[r].contextStack[i] # Null
                      THEN Touch(res.w, r) ELSE res.w
                fut == ResumeFuture(r, res.pid, child, getClonedRenderContext(w1, r),
                                    [c \in Ctxs |-> w1.context[c][w1.rens[r].threadID]])
                w2 == [w1 EXCEPT !.futures = Append(@, fut)]
            IN  [w |-> w2, item |-> FutItem(Len(w2.futures)), exc |-> "none"]
  ELSE [w |-> res.w, item |-> StrItem(res.out), exc |-> res.exc]

\* renderEventually(child, frame, canSuspend): a string, a promise, or a throw.
renderEventually(w, r, child, canSuspend) ==
  renderEventuallyCatch(
    NoteOutcome(NoteEmpty(w, render(w, r, child), r, child), r, w.rens[r].suspenseDepth),
    r, child, canSuspend)

\* Mutant: the buffer taken for a finished boundary is the one of the
\* outermost open boundary.
popBoundary_Shallowest(w, r, footer) ==
  LET ren == w.rens[r]
      suspenseResults == ren.outQueue[2]
      w2 == [w EXCEPT !.rens[r].suspenseDepth = @ - 1,
                      !.rens[r].outQueue = SubSeq(@, 1, 1) \o SubSeq(@, 3, Len(@)),
                      !.futures = Append(@, AllFuture(r, suspenseResults, footer))]
  IN  pushToOutQueue(w2, r, FutItem(Len(w2.futures)))

\* Mutant: the buffer of a finished boundary stays in outQueue.
popBoundary_KeepsBuffer(w, r, footer) ==
  LET ren == w.rens[r]
      suspenseResults == Last(ren.outQueue)
      w2 == [w EXCEPT !.rens[r].suspenseDepth = @ - 1,
                      !.futures = Append(@, AllFuture(r, suspenseResults, footer))]
  IN  pushToOutQueue(w2, r, FutItem(Len(w2.futures)))

\* Mutant: a finished boundary whose buffer holds a promise is marked as
\* suspended, as read marks it.
popBoundary_MarksSuspended(w, r, footer) ==
  LET ren == w.rens[r]
      suspenseResults == Last(ren.outQueue)
      w2 == [w EXCEPT !.rens[r].suspenseDepth = @ - 1,
                      !.rens[r].outQueue = Front(@),
                      !.futures = Append(@, AllFuture(r, suspenseResults, footer))]
      w3 == IF \E i \in 1 .. Len(suspenseResults) : suspenseResults[i].f # 0
            THEN pushToOutQueue(w2, r, StrItem(<<"<!--$!-->">>))
            ELSE w2
  IN  pushToOutQueue(w3, r, FutItem(Len(w2.futures)))

\* readAsync, a boundary frame was popped: its buffer becomes one promise in
\* the buffer one level up.
popBoundary(w, r, footer) ==
  LET ren == w.rens[r]
      suspenseResults == Last(ren.outQueue)
      w2 == [w EXCEPT !.rens[r].suspenseDepth = @ - 1,
                      !.rens[r].outQueue = Front(@),
                      !.futures = Append(@, AllFuture(r, suspenseResults, footer))]
  IN  pushToOutQueue(w2, r, FutItem(Len(w2.futures)))

\* History: one loop iteration of readAsync took before to n.w.
NoteQueueStep(before, n, r) ==
  LET ren == before.rens[r]
      q == ren.outQueue
      q2 == n.w.rens[r].outQueue
      fs2 == n.w.futures
      k == Len(q)
      isPop == /\ Len(ren.stack) > 0
               /\ Last(ren.stack).type = "suspense"
               /\ Len(n.w.rens[r].stack) = Len(ren.stack) - 1
      faults ==
        IF isPop
        THEN (IF k >= 2 /\ k = ren.suspenseDepth + 1 /\ Len(q2) = k - 1
                 /\ SubSeq(q2, 1, k - 2) = SubSeq(q, 1, k - 2)
              THEN {} ELSE {"notDeepest"})
             \cup
             (IF k >= 2 /\ Len(q2) >= k - 1 /\ Len(fs2) = Len(before.futures) + 1
                 /\ q2[k - 1] = Append(q[k - 1], FutItem(Len(fs2)))
              THEN {} ELSE {"notOneFuture"})
             \cup
             (IF k >= 2 /\ Len(fs2) > 0 /\ fs2[Len(fs2)].kind = "all"
                 /\ fs2[Len(fs2)].parts = q[k]
                 /\ fs2[Len(fs2)].footer = <<"<!--/$-->">>
              THEN {} ELSE {"wrongFuture"})
        ELSE (IF Len(q2) >= k THEN {} ELSE {"removed"})
             \cup
             (IF \A i \in 1 .. k : i <= Len(q2) => IsPrefix(Flat(q[i]), Flat(q2[i]))
              THEN {} ELSE {"reordered"})
      \* what the iteration pushed to the depth-0 buffer
      old == q[1]
      new == q2[1]
      grown == /\ Len(new) >= Len(old)
               /\ old[Len(old)].f = 0
               /\ new[Len(old)].f = 0
               /\ Len(new[Len(old)].s) > Len(old[Len(old)].s)
      delta == (IF grown
                THEN <<StrItem(SubSeq(new[Len(old)].s, Len(old[Len(old)].s) + 1,
                                      Len(new[Len(old)].s)))>>
                ELSE <<>>)
               \o SubSeq(new, Len(old) + 1, Len(new))
  IN  [n EXCEPT !.w.rens[r].queueFaults = @ \cup faults,
                !.w.rens[r].pushed0 = @ \o delta]

\* History: flattenAndResolveQueue or its callback took before to fl.w and
\* passed fl.result to the callback of the call.
NoteFlatten(before, fl, r) ==
  LET q == before.rens[r].outQueue
      q2 == fl.w.rens[r].outQueue
      faults ==
        (IF Len(q2) = Len(q) /\ SubSeq(q2, 2, Len(q2)) = SubSeq(q, 2, Len(q))
         THEN {} ELSE {"removed"})
        \cup
        (IF Expand(before.futures, q[1]) = fl.result \o Expand(fl.w.futures, q2[1])
         THEN {} ELSE {"reordered"})
  IN  IF faults = {} THEN fl ELSE [fl EXCEPT !.w.rens[r].queueFaults = @ \cup faults]

\* The state of one readAsync call.
AsyncCall(bytes) == [bytes |-> bytes, pc |-> "loop"]

\* The end of the loop body of readAsync: what renderEventually returned is
\* queued, what it threw leaves the call.
PushRendered(res, r, cs) ==
  LET w2 == IF Len(res.w.rens[r].outQueue) <= res.w.rens[r].suspenseDepth
            THEN [res.w EXCEPT !.rens[r].outQueue = Append(@, <<StrItem(<<>>)>>)]
            ELSE res.w
  IN  IF res.exc = "none"
      THEN ReadResult(pushToOutQueue(w2, r, res.item), cs)
      ELSE ReadResult(res.w, [cs EXCEPT !.pc = "throw"])

\* Mutant: the loop of readAsync measures every string of the depth-0 buffer.
RECURSIVE FirstChunk_AllStrings(_)
FirstChunk_AllStrings(buffer) ==
  IF buffer = <<>> THEN <<>>
  ELSE (IF Head(buffer).f = 0 THEN Head(buffer).s ELSE <<>>)
       \o FirstChunk_AllStrings(Tail(buffer))

\* this.outQueue[0][0], which the loop condition of readAsync measures.
FirstChunk(buffer) == buffer[1].s

\* One evaluation of the loop condition of readAsync and, if it holds, one
\* run of the body.
AsyncIter(w, r, cs) ==
  LET ren == w.rens[r]
  IN  IF ren.exhausted \/ ~(StrLen(FirstChunk(ren.outQueue[1])) < cs.bytes)
      THEN ReadResult(w, [cs EXCEPT !.pc = "flatten"])
      ELSE IF Len(ren.stack) = 0
      THEN LET w1 == [w EXCEPT !.rens[r].exhausted = TRUE]
               w2 == freeThreadID(w1, ren.threadID)
           IN  ReadResult([w2 EXCEPT !.rens[r].nfree = @ + 1], [cs EXCEPT !.pc = "flatten"])
      ELSE
      LET frame == Last(ren.stack)
      IN  IF frame.childIndex >= Len(frame.children)
          THEN LET footer == frame.footer
                   w1 == [w EXCEPT !.rens[r].stack = Front(@),
                                   !.rens[r].previousWasTextNode =
                                       IF footer # <<>> THEN FALSE ELSE @]
               IN  CASE frame.type = "provider" ->
                          ReadResult(pushToOutQueue(
                                       NotePop(w1, popProvider(w1, r, frame.el), r, frame.el),
                                       r, StrItem(footer)), cs)
                     [] frame.type = "suspense" ->
                          ReadResult(popBoundary(w1, r, footer), cs)
                     [] OTHER ->
                          ReadResult(pushToOutQueue(w1, r, StrItem(footer)), cs)
          ELSE PushRendered(
                 renderEventually(
                   [w EXCEPT !.rens[r].stack[Len(ren.stack)].childIndex = @ + 1], r,
                   frame.children[frame.childIndex + 1],
                   ren.suspenseDepth > 0 \/ ren.isChildRenderer),
                 r, cs)

RECURSIVE AsyncLoop(_, _, _)
AsyncLoop(w, r, cs) ==
  IF cs.pc # "loop" THEN ReadResult(w, cs)
  ELSE LET n == NoteQueueStep(w, AsyncIter(NoteFallback(NoteCurrent(NoteDepth(NoteLoop(w, r), r), r), r), r, cs), r)
       IN  AsyncLoop(n.w, r, n.cs)

\* flattenAndResolveQueue(queue, bytes, cb): wait = 0 when cb was called with
\* result, otherwise the future whose .then the call is waiting for.
RECURSIVE flattenAndResolveQueue(_, _, _)
flattenAndResolveQueue(w, r, bytes) ==
  LET q == w.rens[r].outQueue[1]
  IN  IF StrLen(q[1].s) < bytes /\ Len(q) > 1
      THEN IF q[2].f # 0
           THEN IF bytes # Infinity /\ StrLen(q[1].s) > 0
                THEN [w |-> [w EXCEPT !.rens[r].outQueue[1][1].s = <<>>],
                      wait |-> 0, result |-> q[1].s]
                ELSE [w |-> w, wait |-> q[2].f, result |-> <<>>]
           ELSE flattenAndResolveQueue(
                  [w EXCEPT !.rens[r].outQueue[1] =
                              <<StrItem(q[1].s \o q[2].s)>> \o SubSeq(q, 3, Len(q))],
                  r, bytes)
      ELSE IF Len(q) = 1 /\ StrLen(q[1].s) = 0
      THEN [w |-> w, wait |-> 0, result |-> <<>>]
      ELSE [w |-> [w EXCEPT !.rens[r].outQueue[1][1].s = <<>>],
            wait |-> 0, result |-> q[1].s]

\* Mutant: destroy() of the async renderer without the exhausted check.
destroyAsync_Unguarded(w, r) ==
  LET w1 == [w EXCEPT !.rens[r].aborted = ~w.rens[r].exhausted, !.rens[r].exhausted = TRUE]
      w2 == clearProviders(w1, r)
  IN  IF ~w2.rens[r].isChildRenderer
      THEN [freeThreadID(w2, w2.rens[r].threadID) EXCEPT !.rens[r].nfree = @ + 1]
      ELSE w2

\* Mutant: destroy() leaves the open providers as they are.
destroyAsync_KeepsProviders(w, r) ==
  IF ~w.rens[r].exhausted
  THEN LET w2 == [w EXCEPT !.rens[r].exhausted = TRUE, !.rens[r].aborted = TRUE]
       IN  IF ~w2.rens[r].isChildRenderer
           THEN [freeThreadID(w2, w2.rens[r].threadID) EXCEPT !.rens[r].nfree = @ + 1]
           ELSE w2
  ELSE w

\* destroy() of the async renderer.
destroyAsync(w, r) ==
  IF ~w.rens[r].exhausted
  THEN LET w1 == [w EXCEPT !.rens[r].exhausted = TRUE, !.rens[r].aborted = TRUE]
           w2 == clearProviders(w1, r)
       IN  IF ~w2.rens[r].isChildRenderer
           THEN [freeThreadID(w2, w2.rens[r].threadID) EXCEPT !.rens[r].nfree = @ + 1]
           ELSE w2
  ELSE w

-----------------------------------------------------------------------------
(* readAsync and the promise callbacks *)

RemoveAt(q, i) == SubSeq(q, 1, i - 1) \o SubSeq(q, i + 1, Len(q))

\* The promise of a readAsync call on renderer r resolves with result.  For a
\* resumed renderer this runs the .then of renderEventually: the renderer is
\* destroyed and the markup resolves the promise pushed for the subtree.
Deliver(w, r, result) ==
  LET ren == w.rens[r]
  IN  IF ren.isChildRenderer
      THEN [destroyAsync(w, r) EXCEPT !.futures[ren.future].st = "resolved",
                                      !.futures[ren.future].val = result,
                                      !.rens[r].emitted = @ \o result]
      ELSE [w EXCEPT !.rens[r].emitted = @ \o result]

\* What a run of flattenAndResolveQueue leaves: a settled call, or a call
\* waiting for the promise at the front of the depth-0 buffer.
Settle(w, r, bytes) ==
  LET fl == NoteFlatten(w, flattenAndResolveQueue(w, r, bytes), r)
  IN  IF fl.wait = 0 THEN Deliver(fl.w, r, fl.result)
      ELSE [fl.w EXCEPT !.reads = Append(@, [r |-> r, bytes |-> bytes, f |-> fl.wait])]

\* Mutant: readAsync that resolves null as soon as the session is exhausted.
readAsync_NullWhenExhausted(w, r, bytes) ==
  LET ren == w.rens[r]
  IN  IF ren.exhausted
      THEN [w EXCEPT !.rens[r].nullReturned = TRUE]
      ELSE LET n == AsyncLoop([w EXCEPT !.rens[r].call = NoCall], r, AsyncCall(bytes))
           IN  IF n.cs.pc = "throw"
               THEN [n.w EXCEPT !.rens[r].threw = TRUE, !.rens[r].call.threw = TRUE]
               ELSE Settle(n.w, r, bytes)

\* The synchronous part of readAsync(bytes).
readAsync(w, r, bytes) ==
  LET ren == w.rens[r]
  IN  IF ren.exhausted /\ Len(ren.outQueue[1]) = 1 /\ StrLen(ren.outQueue[1][1].s) = 0
      THEN [w EXCEPT !.rens[r].nullReturned = TRUE]
      ELSE LET n == AsyncLoop([ReadEnter(w, r) EXCEPT !.rens[r].call = NoCall], r,
                              AsyncCall(bytes))
           IN  NoteRestored(w,
                 ReadFinally(
                   IF n.cs.pc = "throw"
                   THEN [n.w EXCEPT !.rens[r].threw = TRUE, !.rens[r].call.threw = TRUE]
                   ELSE Settle(n.w, r, bytes),
                   w.current),
                 r)

\* The callback flattenAndResolveQueue passed to queue[0][1].then, for the
\* waiting call reads[i].
flattenCallback(w, i) ==
  LET rec == w.reads[i]
      r == rec.r
      markup == FutureValue(w.futures, rec.f)
      q == w.rens[r].outQueue[1]
      w1 == [w EXCEPT !.rens[r].outQueue[1] =
                         <<StrItem(q[1].s \o markup)>> \o SubSeq(q, 3, Len(q)),
                      !.reads = RemoveAt(@, i)]
  IN  Settle(NoteFlatten(w, [w |-> w1, wait |-> 0, result |-> <<>>], r).w, r, rec.bytes)

\* new ReactDOMServerRendererAsync(children, makeStaticMarkup, renderContext)
RECURSIVE Reseed(_, _, _, _)
Reseed(w, r, rc, i) ==
  IF i > Len(rc.contextStack) THEN w
  ELSE IF rc.contextStack[i] = Null THEN Reseed(w, r, rc, i + 1)
  ELSE Reseed([Touch(w, r) EXCEPT !.context[rc.contextStack[i]][rc.threadID] =
                                     rc.contextValues[i]],
              r, rc, i + 1)

NewAsyncRenderer(w, children, makeStaticMarkup, id) ==
  LET w1 == NewRenderer(w, "async", children, makeStaticMarkup, id)
  IN  [w1 EXCEPT !.rens[Len(w1.rens)].outQueue = <<<<StrItem(<<>>)>>>>]

NewChildRenderer(w, f, id) ==
  LET fut == w.futures[f]
      rc == fut.rc
      w1 == NewAsyncRenderer(w, <<fut.child>>, w.rens[fut.owner].makeStaticMarkup, id)
      r == Len(w1.rens)
      w2 == [w1 EXCEPT !.rens[r].isChildRenderer = TRUE,
                       !.rens[r].threadID = rc.threadID,
                       !.rens[r].previousWasTextNode = rc.previousWasTextNode,
                       !.rens[r].contextIndex = rc.contextIndex,
                       !.rens[r].contextStack = rc.contextStack,
                       !.rens[r].contextValueStack = rc.contextValueStack,
                       !.rens[r].parent = fut.owner,
                       !.rens[r].future = f,
                       !.rens[r].pre = w.rens[fut.owner].pre,
                       !.futures[f].rid = r]
  IN  Reseed(w2, r, rc, 1)

\* The callback renderEventually passed to err.then: the subtree is rendered
\* by a new renderer, read with readAsync(Infinity).
resume(w, f, id) ==
  LET w1 == NewChildRenderer(w, f, id)
  IN  readAsync(w1, w1.futures[f].rid, Infinity)

-----------------------------------------------------------------------------
(* Trees and budgets the sessions are run on *)

ta == Text("a")
tb == Text("b")
tc == Text("c")

\* Trees without an external value.
PlainTrees ==
  { <<ta, tb>>,
    <<El("p", <<ta, El("q", <<>>), tb>>), tc>>,
    <<Prov("A", "1", <<Cons("A"), Prov("A", "2", <<Cons("A"), Cons("B")>>), Cons("A")>>),
      Cons("A")>>,
    <<ta, Susp(<<Text("f")>>, <<tb, El("p", <<tc>>)>>), tc>>,
    <<ta, RetNull, Text(""), Frag(<<tb, Susp(<<>>, <<Susp(<<>>, <<tc>>), Cons("B")>>)>>)>>,
    <<ta, El("p", <<Prov("B", "1", <<Cons("B"), Susp(<<Text("f")>>, <<tb>>)>>)>>), tc>>,
    <<RetNull, Susp(<<tb>>, <<tc, RetUndef>>)>>
  }

SyncTrees ==
  PlainTrees \cup
  { <<Prov("A", "1", <<Prov("B", "2", <<Prov("A", "3", <<Cons("A"), Throws, Cons("B")>>)>>)>>)>>,
    <<ta, Susp(<<Text("f"), Cons("A")>>,
               <<tb, Prov("A", "1", <<El("p", <<tc, Lazy(1, <<ta>>)>>)>>)>>), tc>>,
    <<Susp(<<Text("f")>>,
           <<ta, Susp(<<Text("g")>>, <<tb, Lazy(1, <<tc>>), ta>>), Lazy(2, <<tb>>), tc>>)>>,
    <<ta, Frag(<<tc, ta>>), Lazy(1, <<tb>>)>>,
    <<Susp(<<Text("f"), Lazy(2, <<ta>>)>>, <<tb, Lazy(1, <<tc>>)>>), tc>>
  }

AsyncTrees ==
  PlainTrees \cup
  { <<ta, Susp(<<Text("f")>>, <<tb, Lazy(1, <<Prov("B", "1", <<tc>>)>>), ta>>), tb>>,
    <<Prov("A", "1", <<Susp(<<>>, <<Prov("A", "2", <<Lazy(1, <<Cons("A")>>), Cons("A")>>)>>)>>),
      Cons("A")>>,
    <<Susp(<<>>, <<ta, Lazy(1, <<tb>>), Susp(<<>>, <<Lazy(2, <<tc>>)>>), ta>>)>>,
    <<Susp(<<>>, <<Lazy(1, <<ta, Lazy(2, <<tb>>), tc>>)>>), El("p", <<ta>>)>>,
    <<Susp(<<>>, <<Prov("B", "1", <<Lazy(1, <<Cons("B"), Throws>>)>>)>>), tc>>,
    <<Susp(<<>>, <<Prov("A", "2", <<Lazy(1, <<Cons("A")>>)>>), Lazy(1, <<Cons("A")>>)>>)>>,
    <<ta, Lazy(1, <<tb>>), tc>>,
    <<Susp(<<>>, <<Lazy(1, <<ta>>), tb>>)>>
  }

\* Trees with one pending subtree that can fail.
FailTrees ==
  { <<ta, Susp(<<Text("f")>>, <<tb, Lazy(1, <<tc>>)>>), tb>>,
    <<Susp(<<>>, <<Lazy(1, <<Throws>>)>>), tc>>,
    <<Susp(<<>>, <<Prov("B", "1", <<Lazy(1, <<Prov("B", "2", <<Throws>>)>>)>>)>>), tc>>
  }

\* Trees of the sessions that are read until they return null.
LiveTrees ==
  FailTrees \cup { <<ta, Lazy(1, <<tb>>), tc>> }

\* Trees of the sessions that run side by side.
IdTrees ==
  { <<Susp(<<>>, <<Prov("A", "1", <<Lazy(1, <<Cons("A")>>)>>)>>)>>,
    <<Cons("A"), ta>>
  }

\* Trees of the synchronous sessions that are read in turns.
PairTrees ==
  { <<Prov("A", "1", <<Cons("A"), ta, Cons("A")>>), Cons("A")>>,
    <<Cons("A"), Prov("A", "2", <<ReadsFirst, Cons("A"), Cons("B")>>), ReadsFirst, Cons("A")>>,
    <<Susp(<<Cons("A")>>, <<Prov("A", "3", <<Cons("A"), Lazy(1, <<tc>>)>>)>>), Cons("B")>>
  }

\* Trees of the sessions that are read again before a call has settled.
OverlapTrees ==
  { <<ta, Susp(<<Text("f")>>, <<tb, Lazy(1, <<tc>>)>>), tb>>,
    <<Susp(<<>>, <<Lazy(1, <<ta>>)>>), tb, Susp(<<>>, <<Lazy(1, <<tc>>)>>)>>
  }

\* Trees of the synchronous sessions one of which reads the other from
\* inside a component.
CallTrees ==
  { <<ta, Throws>>,
    <<Prov("A", "1", <<ReadsFirst, Cons("A")>>), ReadsFirst, tb>>
  }

Budgets == {1, 12, Infinity}

-----------------------------------------------------------------------------
(* Actions *)

Init ==
  /\ rens = <<>>
  /\ context = [c \in Ctxs |-> [id \in ThreadIDs |-> DefaultValue]]
  /\ held = {}
  /\ promises = [p \in Pids |-> "pending"]
  /\ futures = <<>>
  /\ reads = <<>>
  /\ uses = {}
  /\ current = NoCurrent

\* new ReactDOMServerRenderer(children, makeStaticMarkup)
NewSync(children, makeStaticMarkup) ==
  /\ Len(rens) = 0
  /\ \E id \in FreeIDs(World) :
        Commit(NewRenderer(World, "sync", children, makeStaticMarkup, id))

\* renderer.read(bytes)
Read(r, bytes) ==
  /\ rens[r].kind = "sync"
  /\ Commit(read(World, r, bytes))

\* renderer.destroy(), any number of times
Destroy(r) ==
  /\ rens[r].kind = "sync"
  /\ Commit([destroySync(World, r) EXCEPT !.rens[r].destroyed = TRUE])

\* The external value p becomes available.
Resolve(p) ==
  /\ promises[p] = "pending"
  /\ promises' = [promises EXCEPT ![p] = "resolved"]
  /\ UNCHANGED <<rens, context, held, futures, reads, uses, current>>

\* new ReactDOMServerRenderer(children, makeStaticMarkup) while fewer than max
\* renderers exist
NewSyncAmong(children, makeStaticMarkup, max) ==
  /\ Len(rens) < max
  /\ \E id \in FreeIDs(World) :
        Commit(NewRenderer(World, "sync", children, makeStaticMarkup, id))

NextSync ==
  \/ \E t \in SyncTrees, m \in BOOLEAN : NewSync(t, m)
  \/ \E r \in 1 .. Len(rens), b \in Budgets : Read(r, b)
  \/ \E r \in 1 .. Len(rens) : Destroy(r)
  \/ \E p \in Pids : Resolve(p)

SpecSync == Init /\ [][NextSync]_vars

\* Several synchronous sessions, their calls in any order.
NextPair ==
  \/ \E t \in PairTrees : NewSyncAmong(t, FALSE, MaxSessions)
  \/ \E r \in 1 .. Len(rens), b \in {1, Infinity} : Read(r, b)
  \/ \E r \in 1 .. Len(rens) : Destroy(r)

SpecPair == Init /\ [][NextPair]_vars

-----------------------------------------------------------------------------
(* Actions of the async renderer *)

\* new ReactDOMServerRendererAsync(children, makeStaticMarkup)
NewAsync(children, makeStaticMarkup, max) ==
  /\ Cardinality({r \in 1 .. Len(rens) : ~rens[r].isChildRenderer}) < max
  /\ \E id \in FreeIDs(World) :
        Commit(NewAsyncRenderer(World, children, makeStaticMarkup, id))

Outstanding(r) == \E i \in 1 .. Len(reads) : reads[i].r = r

\* renderer.readAsync(bytes), issued when the previous call has settled
ReadAsync(r, bytes) ==
  /\ rens[r].kind = "async"
  /\ ~rens[r].isChildRenderer
  /\ ~Outstanding(r)
  /\ Commit(readAsync(World, r, bytes))

\* The promise a waiting readAsync call waits for has resolved.
FlattenCallback(i) ==
  /\ FutureState(futures, reads[i].f) = "resolved"
  /\ Commit(flattenCallback(World, i))

\* The err.then callback of the pending subtree of futures[f] is ready to
\* run: callbacks on one thenable run in the order they were registered.
CanResume(f) ==
  /\ futures[f].kind = "resume"
  /\ futures[f].st = "pending"
  /\ futures[f].rid = 0
  /\ promises[futures[f].pid] = "resolved"
  /\ \A g \in 1 .. (f - 1) :
        futures[g].kind = "resume" /\ futures[g].pid = futures[f].pid
           => futures[g].rid # 0
  /\ FreeIDs(World) # {}

\* The external value of a pending subtree has resolved: the subtree resumes.
Resume(f) ==
  /\ CanResume(f)
  /\ \E id \in FreeIDs(World) : Commit(resume(World, f, id))

\* The .catch of renderEventually: the resumed renderer threw.
ResumeCatch(f) ==
  /\ futures[f].kind = "resume"
  /\ futures[f].st = "pending"
  /\ futures[f].rid # 0
  /\ rens[futures[f].rid].threw
  /\ Commit([destroyAsync(World, futures[f].rid) EXCEPT !.futures[f].st = "rejected"])

\* renderer.destroy() on a top-level async renderer
DestroyAsync(r) ==
  /\ rens[r].kind = "async"
  /\ ~rens[r].isChildRenderer
  /\ Commit([destroyAsync(World, r) EXCEPT !.rens[r].destroyed = TRUE])

\* The external value p fails: every promise chained on it rejects.
Reject(p) ==
  /\ promises[p] = "pending"
  /\ promises' = [promises EXCEPT ![p] = "rejected"]
  /\ futures' = [f \in 1 .. Len(futures) |->
                   IF futures[f].kind = "resume" /\ futures[f].pid = p
                   THEN [futures[f] EXCEPT !.st = "rejected"] ELSE futures[f]]
  /\ UNCHANGED <<rens, context, held, reads, uses, current>>

NextAsync ==
  \/ \E t \in AsyncTrees, m \in BOOLEAN : NewAsync(t, m, 1)
  \/ \E r \in 1 .. Len(rens), b \in Budgets : ReadAsync(r, b)
  \/ \E i \in 1 .. Len(reads) : FlattenCallback(i)
  \/ \E f \in 1 .. Len(futures) : Resume(f)
  \/ \E f \in 1 .. Len(futures) : ResumeCatch(f)
  \/ \E r \in 1 .. Len(rens) : DestroyAsync(r)
  \/ \E p \in Pids : Resolve(p)
  \/ \E p \in Pids : Reject(p)

SpecAsync == Init /\ [][NextAsync]_vars

\* One session, synchronous or asynchronous, read again and again.
NextLive ==
  \/ \E t \in LiveTrees : NewSync(t, FALSE)
  \/ \E t \in LiveTrees : Len(rens) = 0 /\ NewAsync(t, FALSE, 1)
  \/ \E r \in 1 .. Len(rens), b \in {1, Infinity} : Read(r, b)
  \/ \E r \in 1 .. Len(rens), b \in {1, Infinity} : ReadAsync(r, b)
  \/ \E i \in 1 .. Len(reads) : FlattenCallback(i)
  \/ \E f \in 1 .. Len(futures) : Resume(f)
  \/ \E f \in 1 .. Len(futures) : ResumeCatch(f)
  \/ \E p \in {1} : Resolve(p)

\* The embedding program can issue the next call: the session has not
\* returned null and no readAsync call on it is unsettled.
CanRead ==
  \E r \in 1 .. Len(rens) :
     ~rens[r].isChildRenderer /\ ~rens[r].nullReturned /\ ~Outstanding(r)

\* A step in which read or readAsync was called on a session that had not
\* returned null, told by what only such a call does to a top-level renderer:
\* its loop moves the frame stack or finds it empty, the call returns null or
\* throws, a new call starts waiting in flattenAndResolveQueue, or output is
\* returned while no waiting call is touched.
ReadStep ==
  \E r \in 1 .. Len(rens) :
     /\ ~rens[r].isChildRenderer
     /\ \/ rens'[r].stack # rens[r].stack
        \/ rens'[r].exhausted # rens[r].exhausted
        \/ rens'[r].nullReturned # rens[r].nullReturned
        \/ rens'[r].call # rens[r].call
        \/ Len(reads') > Len(reads)
        \/ reads' = reads /\ rens'[r].emitted # rens[r].emitted

\* The embedding program keeps calling: weak fairness of the read calls, with
\* CanRead written out for their enabling condition.
ReadFair ==
  \/ []<>~CanRead
  \/ []<><<ReadStep>>_vars

\* One async session over a pending subtree whose value may fail or whose
\* resumed rendering throws; every enabled step is eventually taken.
NextFail ==
  \/ \E t \in FailTrees : NewAsync(t, FALSE, 1)
  \/ \E r \in 1 .. Len(rens), b \in {1, Infinity} : ReadAsync(r, b)
  \/ \E i \in 1 .. Len(reads) : FlattenCallback(i)
  \/ \E f \in 1 .. Len(futures) : Resume(f)
  \/ \E f \in 1 .. Len(futures) : ResumeCatch(f)
  \/ \E p \in {1} : Resolve(p)
  \/ \E p \in {1} : Reject(p)

\* Weak fairness of the err.then callbacks, with CanResume written out for
\* the enabling condition of Resume.
ResumeFair ==
  \/ []<>~(\E f \in 1 .. Len(futures) : CanResume(f))
  \/ []<><<\E f \in 1 .. Len(futures) : Resume(f)>>_vars

\* Promise callbacks that are ready are eventually run; the calls of the
\* embedding program and the external values are under no obligation.
SpecFail ==
  /\ Init /\ [][NextFail]_vars
  /\ WF_vars(\E i \in 1 .. Len(reads) : FlattenCallback(i))
  /\ WF_vars(\E f \in 1 .. Len(futures) : ResumeCatch(f))
  /\ ResumeFair

\* One session, synchronous or async.
NextBoth == NextSync \/ NextAsync

SpecBoth == Init /\ [][NextBoth]_vars

\* Several top-level async sessions side by side.
NextIds ==
  \/ \E t \in IdTrees : NewAsync(t, FALSE, MaxSessions)
  \/ \E r \in 1 .. Len(rens), b \in {1, Infinity} : ReadAsync(r, b)
  \/ \E i \in 1 .. Len(reads) : FlattenCallback(i)
  \/ \E f \in 1 .. Len(futures) : Resume(f)
  \/ \E r \in 1 .. Len(rens) : DestroyAsync(r)
  \/ \E p \in {1} : Resolve(p)

SpecIds == Init /\ [][NextIds]_vars

\* Some waiting readAsync call waits for a promise that is fulfilled.
CanFlatten == \E i \in 1 .. Len(reads) : FutureState(futures, reads[i].f) = "resolved"

\* Weak fairness of the callbacks of flattenAndResolveQueue, with CanFlatten
\* written out for their enabling condition.
FlattenFair ==
  \/ []<>~CanFlatten
  \/ []<><<\E i \in 1 .. Len(reads) : FlattenCallback(i)>>_vars

\* The program reads until null, every external value resolves, and promise
\* callbacks that are ready are eventually run.
SpecLive ==
  /\ Init /\ [][NextLive]_vars
  /\ ReadFair
  /\ WF_vars(\E p \in {1} : Resolve(p))
  /\ FlattenFair
  /\ WF_vars(\E f \in 1 .. Len(futures) : ResumeCatch(f))
  /\ ResumeFair

-----------------------------------------------------------------------------
(* Reference definitions used by the properties *)

Renderers == 1 .. Len(rens)
SyncSessions == {r \in Renderers : rens[r].kind = "sync"}
AsyncSessions == {r \in Renderers : rens[r].kind = "async" /\ ~rens[r].isChildRenderer}
Children == {r \in Renderers : rens[r].isChildRenderer}

\* The world before any session, with the external values in state proms.
FreshWorld(proms) ==
  [rens |-> <<>>, context |-> [c \in Ctxs |-> [id \in ThreadIDs |-> DefaultValue]],
   held |-> {}, promises |-> proms, futures |-> <<>>, reads |-> <<>>, uses |-> {},
   current |-> NoCurrent]

\* A fresh synchronous session over children, after a single read(Infinity).
SingleShot(children, makeStaticMarkup, proms) ==
  read(NewRenderer(FreshWorld(proms), "sync", children, makeStaticMarkup, 0),
       1, Infinity).rens[1]

\* A session that has returned null after running to the end of its tree,
\* with no throw, no early destroy() and no external value changing meanwhile.
RanToEnd(r) ==
  /\ rens[r].nullReturned
  /\ ~rens[r].threw
  /\ ~rens[r].aborted
  /\ rens[r].startPromises = promises

\* The markup of a list of nodes, defined on the tree: a boundary whose primary
\* children meet an unresolved value is the suspended marker, the markup of its
\* fallback and the closing marker.  level is the depth of the frame holding
\* the nodes; e is the value of each context; st.prev is previousWasTextNode.
RECURSIVE MarkupOfList(_, _, _, _, _, _)
RECURSIVE MarkupOf(_, _, _, _, _, _)
MarkupOfList(nodes, st, e, level, static, proms) ==
  IF nodes = <<>> \/ st.susp \/ st.err THEN st
  ELSE MarkupOfList(Tail(nodes), MarkupOf(Head(nodes), st, e, level, static, proms),
                    e, level, static, proms)

MarkupOf(n, st, e, level, static, proms) ==
  CASE n.k = "text" ->
         IF n.s = "" THEN st
         ELSE IF static THEN [st EXCEPT !.out = @ \o <<n.s>>]
         ELSE IF st.prev THEN [st EXCEPT !.out = @ \o <<"<!-- -->", n.s>>]
         ELSE [st EXCEPT !.out = @ \o <<n.s>>, !.prev = TRUE]
    [] n.k \in {"null", "reads"} -> st
    [] n.k \in {"undef", "throw"} -> [st EXCEPT !.err = TRUE]
    [] n.k = "el" ->
         LET open == IF ~static /\ level = 1 THEN "<" \o n.s \o " data-reactroot=\"\">"
                     ELSE "<" \o n.s \o ">"
             in == MarkupOfList(n.ch, [st EXCEPT !.out = @ \o <<open>>, !.prev = FALSE],
                                e, level + 1, static, proms)
         IN  IF in.susp \/ in.err THEN in
             ELSE [in EXCEPT !.out = @ \o <<"</" \o n.s \o ">">>, !.prev = FALSE]
    [] n.k = "frag" -> MarkupOfList(n.ch, st, e, level + 1, static, proms)
    [] n.k = "prov" ->
         MarkupOfList(n.ch, st, [e EXCEPT ![n.c] = n.s], level + 1, static, proms)
    [] n.k = "cons" -> MarkupOf(Text(e[n.c]), st, e, level + 1, static, proms)
    [] n.k = "lazy" ->
         IF proms[n.p] = "resolved" THEN MarkupOfList(n.ch, st, e, level + 1, static, proms)
         ELSE IF proms[n.p] = "rejected" THEN [st EXCEPT !.err = TRUE]
         ELSE [st EXCEPT !.susp = TRUE]
    [] n.k = "susp" ->
         LET primary == MarkupOfList(n.ch, [st EXCEPT !.out = <<>>], e, level + 1,
                                     static, proms)
             fallback == MarkupOfList(n.fb, [st EXCEPT !.out = <<>>, !.prev = FALSE], e,
                                      level + 1, static, proms)
         IN  IF primary.err THEN primary
             ELSE IF ~primary.susp
             THEN [st EXCEPT !.out = @ \o <<"<!--$-->">> \o primary.out \o <<"<!--/$-->">>,
                             !.prev = FALSE]
             ELSE IF fallback.susp \/ fallback.err THEN fallback
             ELSE [st EXCEPT !.out = @ \o <<"<!--$!-->">> \o fallback.out \o <<"<!--/$-->">>,
                             !.prev = FALSE]

SyncMarkup(children, static, proms) ==
  MarkupOfList(children, [out |-> <<>>, prev |-> FALSE, susp |-> FALSE, err |-> FALSE],
               [c \in Ctxs |-> DefaultValue], 1, static, proms)

\* Some boundary of the tree has a primary subtree that produces output and
\* then suspends, with the external values in state proms.
RECURSIVE AnyPartialSuspension(_, _)
AnyPartialSuspension(nodes, proms) ==
  \E i \in 1 .. Len(nodes) :
     \/ /\ nodes[i].k = "susp"
        /\ LET primary == MarkupOfList(nodes[i].ch,
                            [out |-> <<>>, prev |-> FALSE, susp |-> FALSE, err |-> FALSE],
                            [c \in Ctxs |-> DefaultValue], 2, FALSE, proms)
           IN  primary.susp /\ primary.out # <<>>
     \/ AnyPartialSuspension(nodes[i].ch, proms)
     \/ AnyPartialSuspension(nodes[i].fb, proms)

-----------------------------------------------------------------------------
(* Properties of the synchronous renderer, checked under SpecSync *)

\* C2: a synchronous top-level session calls freeThreadID for its id at most
\* once, whatever reads (throwing ones included) and destroy() calls are made,
\* and has called it exactly once as soon as a read found the frame stack
\* empty or destroy() returned.
C2_ReleasedExactlyOnce ==
  \A r \in SyncSessions :
     /\ rens[r].nfree <= 1
     /\ (rens[r].exhausted \/ rens[r].destroyed) => rens[r].nfree = 1
     /\ rens[r].nfree = 1 => rens[r].threadID \notin held

C2_Witness ==
  \E r \in SyncSessions :
     rens[r].threw /\ rens[r].destroyed /\ rens[r].aborted /\ rens[r].nullReturned
       /\ rens[r].nfree = 1

\* C5: once a synchronous session is exhausted or destroyed, every context
\* slot it wrote holds the value it held before the session started.
C5_SlotsRestored ==
  \A r \in SyncSessions :
     rens[r].exhausted =>
        \A c \in rens[r].wrote : context[c][rens[r].threadID] = rens[r].pre[c]

\* destroy() met two open providers of the same context, after a read threw.
C5_Witness ==
  \E r \in SyncSessions :
     /\ rens[r].aborted /\ rens[r].threw
     /\ rens[r].contextIndex >= 2
     /\ rens[r].contextStack[1] = rens[r].contextStack[3]
     /\ rens[r].contextValueStack[3] # rens[r].pre[rens[r].contextStack[3]]

\* C9: the strings returned by successive read(b) calls, whatever the budgets,
\* concatenate to the string a single read(Infinity) returns on a fresh session
\* over the same tree.
C9_ChunkingInvisible ==
  \A r \in SyncSessions :
     RanToEnd(r) =>
        rens[r].emitted =
          SingleShot(rens[r].children, rens[r].makeStaticMarkup, promises).emitted

\* A session read in more than two pieces, across a boundary that suspended.
C9_Witness ==
  \E r \in SyncSessions :
     /\ RanToEnd(r)
     /\ rens[r].nreads > 3
     /\ \E i \in 1 .. Len(rens[r].emitted) : rens[r].emitted[i] = "<!--$!-->"
     /\ \E i \in 1 .. Len(rens[r].emitted) : rens[r].emitted[i] = "<!-- -->"

\* C10: in sync mode a boundary whose primary subtree suspends after producing
\* output yields the suspended marker, the markup of its fallback and the
\* closing marker, and nothing the primary subtree produced.
C10_FallbackReplacesPrimary ==
  \A r \in SyncSessions :
     RanToEnd(r) /\ AnyPartialSuspension(rens[r].children, promises) =>
        rens[r].emitted =
          SyncMarkup(rens[r].children, rens[r].makeStaticMarkup, promises).out

C10_Witness ==
  \E r \in SyncSessions :
     /\ RanToEnd(r)
     /\ AnyPartialSuspension(rens[r].children, promises)
     /\ \E i \in 1 .. Len(rens[r].emitted) : rens[r].emitted[i] = "<!--$!-->"

-----------------------------------------------------------------------------
(* Properties of the async renderer, checked under SpecAsync and SpecIds *)

\* The top-level session a renderer belongs to.
RECURSIVE RootOf(_)
RootOf(r) == IF rens[r].parent = 0 THEN r ELSE RootOf(rens[r].parent)

\* The renderers of the session whose top-level renderer is r.
Family(r) == {q \in Renderers : RootOf(q) = r}

\* The futures pushed for pending subtrees.
ResumeFutures == {f \in 1 .. Len(futures) : futures[f].kind = "resume"}

\* C1: a renderer created to resume a pending subtree never calls
\* freeThreadID on the thread id it inherited from its parent, neither in
\* readAsync nor in destroy().
C1_ChildNeverFrees ==
  \A r \in Children : rens[r].nfree = 0

\* C3: no renderer reads or writes a context slot under an id for which
\* freeThreadID has been called and which the allocator has not handed out
\* again since.
C3_NoUseAfterRelease ==
  uses = {}

\* C4: a live top-level session never has the id that another live top-level
\* session, or a sub-session of another session that has not finished yet,
\* uses for its context slots.
C4_NoSharedLiveId ==
  \A s \in AsyncSessions :
     ~rens[s].exhausted =>
        /\ \A t \in AsyncSessions \ {s} :
              ~rens[t].exhausted => rens[t].threadID # rens[s].threadID
        /\ \A f \in ResumeFutures :
              futures[f].st = "pending" /\ RootOf(futures[f].owner) # s
                 => futures[f].rc.threadID # rens[s].threadID

\* C6: in the step in which a resumed sub-session completes normally (the
\* future pushed for its subtree resolves), every context slot its
\* constructor re-seeded holds the value it had before the owning top-level
\* session started.
C6_ReseededSlotsRestored ==
  [][\A f \in ResumeFutures :
        futures[f].st = "pending" /\ futures'[f].st = "resolved" =>
           \A i \in 1 .. Len(futures[f].rc.contextStack) :
              futures[f].rc.contextStack[i] # Null =>
                 context'[futures[f].rc.contextStack[i]][futures[f].rc.threadID]
                   = rens'[futures'[f].rid].pre[futures[f].rc.contextStack[i]]]_vars

\* The text leaves of the primary content of a tree, in document order.
RECURSIVE DocumentOrder(_)
DocumentOrder(nodes) ==
  IF nodes = <<>> THEN <<>>
  ELSE (IF Head(nodes).k = "text"
        THEN IF Head(nodes).s = "" THEN <<>> ELSE <<Head(nodes).s>>
        ELSE DocumentOrder(Head(nodes).ch))
       \o DocumentOrder(Tail(nodes))

TextTokens == {"a", "b", "c", "f", "g"}

IsTextToken(t) == t \in TextTokens

\* The text leaves among the tokens a session has returned so far.
TextOf(out) == SelectSeq(out, IsTextToken)

\* No renderer of the session of r has thrown and no future of it was rejected.
NoFailure(r) ==
  /\ \A q \in Family(r) : ~rens[q].threw
  /\ \A f \in ResumeFutures : futures[f].st # "rejected"

RECURSIVE NoPendingValue(_, _)
NoPendingValue(nodes, proms) ==
  \A i \in 1 .. Len(nodes) :
     /\ nodes[i].k = "lazy" => proms[nodes[i].p] = "resolved"
     /\ NoPendingValue(nodes[i].ch, proms)
     /\ NoPendingValue(nodes[i].fb, proms)

\* C8: for a tree with no pending value, the strings resolved by readAsync
\* until null concatenate to what the synchronous read returns for the tree.
C8_ModesAgree ==
  \A r \in AsyncSessions :
     RanToEnd(r) /\ NoPendingValue(rens[r].children, promises) =>
        rens[r].emitted =
          SingleShot(rens[r].children, rens[r].makeStaticMarkup, promises).emitted

\* A tree with nested boundaries and adjacent texts, read to the end.
C8_Witness ==
  \E r \in AsyncSessions :
     /\ RanToEnd(r) /\ NoPendingValue(rens[r].children, promises)
     /\ \E i \in 1 .. Len(rens[r].emitted) - 1 :
           rens[r].emitted[i] = "<!--$-->" /\ rens[r].emitted[i + 1] = "<!--$-->"
     /\ \E i \in 1 .. Len(rens[r].emitted) : rens[r].emitted[i] = "<!-- -->"

\* C11: a consumer inside a pending subtree, rendered by the resumed renderer
\* outside any provider that renderer entered itself, reads the value the
\* slot of its context held when the subtree suspended.
C11_ConsumerReadsSnapshot ==
  \A r \in Children :
     \A x \in rens[r].inherited : x.v = futures[rens[r].future].snap[x.c]

\* A readAsync call is waiting, in flattenAndResolveQueue, for a future that
\* has been rejected.
WaitsForRejected ==
  \E i \in 1 .. Len(reads) : FutureState(futures, reads[i].f) = "rejected"

\* C12: when the external value of a pending subtree fails, or the resumed
\* renderer throws, the readAsync call whose flattening reaches the fragment
\* eventually settles; it does not stay pending forever.
C12_FailureSurfaced ==
  WaitsForRejected ~> ~WaitsForRejected

\* C13: in async mode a pending resolution met by a top-level session while
\* no boundary is open does not make the readAsync call fail.
C13_TopLevelPendingContinues ==
  \A r \in AsyncSessions : rens[r].call.met0 => ~rens[r].call.threw

\* C14: in sync mode a read call in which a pending resolution was met at
\* suspenseDepth 0 throws, and a read call throws only when render met a
\* pending resolution at suspenseDepth 0 or threw an error: a pending
\* resolution met at suspenseDepth > 0 never makes read throw.
C14_FatalOnlyOutsideBoundary ==
  \A r \in SyncSessions :
     /\ rens[r].call.met0 => rens[r].call.threw
     /\ rens[r].call.threw => rens[r].call.met0 \/ rens[r].call.metError

\* A read call suspended inside a boundary and then threw because the
\* fallback met a pending resolution outside any boundary.
C14_Witness ==
  \E r \in SyncSessions :
     rens[r].call.metDeep /\ rens[r].call.met0 /\ rens[r].call.threw

\* C18: in a synchronous session the fallback frame of a boundary is pushed
\* at most once, only after a thenable was thrown by a child resolved at or
\* above the boundary frame on the stack, and it takes the stack position of
\* the boundary frame; no child is resolved afterwards while the frame of a
\* boundary whose fallback was pushed is on the stack, also when the value
\* has resolved meanwhile; and a loop iteration leaves every frame beneath the
\* top of the stack as it was.
C18_FallbackOnceAndFinal ==
  \A r \in SyncSessions : rens[r].sub.faults = {}

\* A session read in pieces to the end, in which a boundary went to its
\* fallback while the value was pending and the value resolved before the
\* session ended.
C18_Witness ==
  \E r \in SyncSessions :
     /\ rens[r].nullReturned /\ ~rens[r].threw /\ ~rens[r].aborted
     /\ rens[r].nreads >= 3
     /\ rens[r].sub.done # {}
     /\ \A q \in Pids : rens[r].startPromises[q] = "pending" /\ promises[q] = "resolved"

\* C23: a read(bytes) call that returns a string shorter than bytes found
\* the frame stack empty during the call, and the session is exhausted from
\* then on; a call that returns without that returns at least bytes
\* characters.
C23_ShortOnlyAtTheEnd ==
  \A r \in SyncSessions :
     /\ rens[r].call.got = "short" => rens[r].call.emptied /\ rens[r].exhausted
     /\ rens[r].call.got # "none" /\ ~rens[r].call.emptied => rens[r].call.got = "full"

\* After calls that met their budget, the last call returned the rest of the
\* output, shorter than its budget, and emptied the frame stack.
C23_Witness ==
  \E r \in SyncSessions :
     /\ rens[r].call.got = "short" /\ rens[r].call.emptied
     /\ rens[r].nreads >= 3
     /\ ~rens[r].nullReturned

-----------------------------------------------------------------------------
(* Properties of both readers, checked under SpecBoth *)

TopLevel == {r \in Renderers : ~rens[r].isChildRenderer}

\* A renderer without the record that destroy() was called on it.
Core(ren) == [ren EXCEPT !.destroyed = FALSE]

\* C15: a destroy() call on a top-level session that is exhausted (or was
\* destroyed before) changes neither the context slots, nor the allocator, nor
\* the session; a destroy() call that finds the session not exhausted
\* exhausts it and releases its id once.
C15_DestroyIdempotent ==
  [][\A r \in TopLevel :
        (Destroy(r) \/ DestroyAsync(r)) =>
           IF rens[r].exhausted
           THEN /\ context' = context /\ held' = held
                /\ futures' = futures /\ reads' = reads
                /\ Len(rens') = Len(rens)
                /\ \A q \in Renderers : Core(rens'[q]) = Core(rens[q])
           ELSE /\ rens'[r].exhausted
                /\ rens'[r].nfree = rens[r].nfree + 1
                /\ held' = held \ {rens[r].threadID}]_vars

\* destroy() was called on an async session that had run to the end and
\* still had output buffered behind a future.
C15_Witness ==
  \E r \in TopLevel :
     /\ rens[r].kind = "async"
     /\ rens[r].destroyed /\ ~rens[r].aborted
     /\ Outstanding(r)

\* C16: in a tree without pending values every consumer reads the value of
\* the innermost provider of its context on its path from the root, or the
\* pre-session value when there is none (the output is the markup defined on
\* the tree), and once the session has run to the end every slot holds its
\* pre-session value.
C16_InnermostProviderWins ==
  \A r \in TopLevel :
     RanToEnd(r) /\ NoPendingValue(rens[r].children, promises) =>
        /\ rens[r].emitted =
             SyncMarkup(rens[r].children, rens[r].makeStaticMarkup, promises).out
        /\ \A c \in Ctxs : context[c][rens[r].threadID] = rens[r].pre[c]

\* A consumer inside two providers of one context, one after the inner
\* provider closed and one after both closed, in an async session.
C16_Witness ==
  \E r \in TopLevel :
     /\ rens[r].kind = "async"
     /\ RanToEnd(r) /\ NoPendingValue(rens[r].children, promises)
     /\ \E i, j, k \in 1 .. Len(rens[r].emitted) :
           /\ i < j /\ j < k
           /\ rens[r].emitted[i] = "2"
           /\ rens[r].emitted[j] = "1"
           /\ rens[r].emitted[k] = DefaultValue

\* C17: in both readers provider scopes are entered and left last in, first
\* out: every popProvider call finds contextIndex >= 0 and answers the
\* innermost push not yet answered, whose entry was made for the provider
\* frame just popped, and writes the value that push recorded into the slot
\* (same context, same thread id) that push overwrote; and at every loop
\* iteration of a top-level session contextIndex + 1 is the number of provider
\* frames on the frame stack.
C17_ScopesAreLIFO ==
  \A r \in Renderers :
     /\ ~rens[r].lifo.badPop
     /\ r \in TopLevel => ~rens[r].lifo.unbalanced

\* A session that threw inside three nested providers and left all three
\* afterwards.
C17_Witness ==
  \E r \in TopLevel :
     rens[r].threw /\ rens[r].lifo.npop >= 3 /\ rens[r].lifo.open = <<>>

\* C19: in the asynchronous reader, popping a boundary frame removes one
\* buffer of outQueue, the deepest, and appends one promise to the buffer one
\* level up, the other buffers staying as they were; the promise, once
\* fulfilled, is the fragments of the removed buffer joined in the order they
\* were pushed, followed by the closing marker.  No other loop iteration, and
\* no run of flattenAndResolveQueue or of its callback, removes a buffer or
\* changes the order of the fragments of one.
C19_BoundaryRollsUpOneBuffer ==
  /\ \A r \in Renderers : rens[r].queueFaults = {}
  /\ \A f \in 1 .. Len(futures) :
        futures[f].kind = "all" /\ FutureState(futures, f) = "resolved" =>
           FutureValue(futures, f) = Expand(futures, futures[f].parts) \o <<"<!--/$-->">>

\* A boundary nested in another was popped while a promise was queued in its
\* buffer, and its own promise has been fulfilled since.
C19_Witness ==
  \E f \in 1 .. Len(futures) :
     /\ futures[f].kind = "all"
     /\ FutureState(futures, f) = "resolved"
     /\ \E i \in 1 .. Len(futures[f].parts) : futures[f].parts[i].f # 0
     /\ \E g \in 1 .. Len(futures) :
           /\ futures[g].kind = "all"
           /\ \E j \in 1 .. Len(futures[g].parts) : futures[g].parts[j].f = f

\* C20: read returns null only when the session is exhausted; readAsync
\* resolves null only when the session is exhausted, the depth-0 buffer holds
\* nothing, and what the earlier calls returned is everything that was ever
\* pushed to the depth-0 buffer, in order; and a read or readAsync call on a
\* session that has returned null changes nothing.
C20_NullOnlyWhenDone ==
  /\ [](\A r \in TopLevel :
          rens[r].nullReturned =>
             /\ rens[r].exhausted
             /\ rens[r].kind = "async" =>
                   /\ rens[r].outQueue[1] = <<StrItem(<<>>)>>
                   /\ Expand(futures, rens[r].pushed0) = rens[r].emitted)
  /\ [][\A r \in TopLevel : \A b \in Budgets :
           rens[r].nullReturned /\ (Read(r, b) \/ ReadAsync(r, b)) => UNCHANGED vars]_vars

\* An asynchronous session that ran to its end, returned its output, part of
\* it through a promise queued in the depth-0 buffer, and then null.
C20_Witness ==
  \E r \in AsyncSessions :
     /\ ~rens[r].isChildRenderer
     /\ rens[r].nullReturned
     /\ ~rens[r].aborted
     /\ Len(rens[r].emitted) >= 3
     /\ \E i \in 1 .. Len(rens[r].pushed0) : rens[r].pushed0[i].f # 0

-----------------------------------------------------------------------------
(* Properties of synchronous sessions read in turns, checked under SpecPair *)

RECURSIVE HasReadsFirst(_)
HasReadsFirst(nodes) ==
  \E i \in 1 .. Len(nodes) :
     nodes[i].k = "reads" \/ HasReadsFirst(nodes[i].ch) \/ HasReadsFirst(nodes[i].fb)

\* The renderers a read call on r may run: r, and the first renderer when the
\* tree of r holds a component that reads it.
MayRun(r) == {r} \cup (IF HasReadsFirst(rens[r].children) THEN {1} ELSE {})

\* C21: synchronous sessions alive at the same time, read in any order, also
\* from inside a component rendered by another session: the output of a
\* session that ran to its end is the output of a single read on a fresh
\* session run alone over the same tree, and a read or destroy call leaves
\* the record (frame stack, context stack, flags) and the context slots of
\* every live session it does not run as they were.
C21_SessionsDoNotInterfere ==
  /\ [](\A r \in SyncSessions :
          rens[r].nullReturned /\ ~rens[r].threw /\ ~rens[r].aborted =>
             rens[r].emitted =
               SingleShot(rens[r].children, rens[r].makeStaticMarkup, promises).emitted)
  /\ [][\A r \in Renderers :
           (Destroy(r) \/ \E b \in {1, Infinity} : Read(r, b)) =>
              \A q \in Renderers \ (IF Destroy(r) THEN {r} ELSE MayRun(r)) :
                 /\ rens'[q] = rens[q]
                 /\ ~rens[q].exhausted =>
                       \A c \in Ctxs :
                          context'[c][rens[q].threadID] = context[c][rens[q].threadID]]_vars

\* Two sessions that ran to their ends, each read at least once while the
\* other was inside a provider, one of them from inside the other's render.
C21_Witness ==
  \E r \in SyncSessions : \E q \in SyncSessions :
     /\ r # q
     /\ r \in rens[q].among /\ q \in rens[r].among
     /\ HasReadsFirst(rens[q].children)
     /\ \A x \in {r, q} : rens[x].nullReturned /\ ~rens[x].threw /\ ~rens[x].aborted

-----------------------------------------------------------------------------
(* Termination, checked under SpecLive *)

\* C22: a session that is read again and again, each call with a positive
\* budget and issued after the previous one settled, eventually returns null,
\* given that every pending external value resolves.
C22_ReadsReachNull ==
  (Len(rens) > 0) ~> (Len(rens) > 0 /\ rens[1].nullReturned)

-----------------------------------------------------------------------------
(* Text separation, checked under SpecBoth *)

\* Two text leaves stand next to each other in what r has returned.
TextsTouch(r) ==
  \E i \in 1 .. Len(rens[r].emitted) - 1 :
     IsTextToken(rens[r].emitted[i]) /\ IsTextToken(rens[r].emitted[i + 1])

\* C24: with makeStaticMarkup = false, in sync and in async mode, two non-empty
\* text leaves never stand next to each other in the output: the second one
\* is preceded by the separator "<!-- -->" unless markup, a marker or a footer
\* lies between them, also when one of them comes from a resumed pending
\* subtree and the other from the parent session.
C24_AdjacentTextsSeparated ==
  \A r \in SyncSessions \cup AsyncSessions :
     ~rens[r].makeStaticMarkup => ~TextsTouch(r)

-----------------------------------------------------------------------------
(* Components that render nothing, checked under SpecBoth *)

\* C25: a component that resolves to undefined makes the read or readAsync
\* call that renders it fail, pushes no frame and yields no text; one that
\* resolves to null or false yields the empty string and pushes no frame.
C25_UndefinedIsFatalNullIsEmpty ==
  \A r \in 1 .. Len(rens) :
     \A x \in rens[r].empties :
        /\ x.pushed = 0
        /\ x.out = <<>>
        /\ x.k = "undef" => x.exc = "error" /\ rens[r].threw
        /\ x.k = "null" => x.exc = "none"

\* The readAsync call of a session that had rendered a component resolving
\* to null has met, inside a boundary, one that resolved to undefined.
C25_Witness ==
  \E r \in AsyncSessions :
     /\ \E e \in rens[r].empties : e.k = "null"
     /\ \E e \in rens[r].empties : e.k = "undef"
     /\ rens[r].suspenseDepth > 0
     /\ rens[r].threw

-----------------------------------------------------------------------------
(* Resumed renderers that throw, checked under SpecFail *)

\* The resumed renderer of future f has thrown and its .catch has not run yet.
ThrewUnanswered(f) ==
  /\ futures[f].kind = "resume"
  /\ futures[f].st = "pending"
  /\ futures[f].rid # 0
  /\ rens[futures[f].rid].threw

\* The value recorded for context c by the outermost open provider entry of
\* renderer r that is for c.
RecordedBefore(r, c) ==
  LET first == CHOOSE i \in 1 .. (rens[r].contextIndex + 1) :
                 /\ rens[r].contextStack[i] = c
                 /\ \A j \in 1 .. (i - 1) : rens[r].contextStack[j] # c
  IN  rens[r].contextValueStack[first]

\* C26: in the step that answers a throw of a resumed renderer, the renderer
\* is destroyed, every slot of a context it re-seeded or overrode holds again
\* the value recorded for it in the (cloned) context value stack, no thread
\* id is released, and the future pushed for the pending subtree is rejected.
C26_FailedResumeCleansUp ==
  [][\A f \in 1 .. Len(futures) :
        ThrewUnanswered(f) /\ futures'[f] # futures[f] =>
           LET r == futures[f].rid
           IN  /\ ~rens[r].exhausted /\ rens'[r].exhausted
               /\ \A i \in 1 .. (rens[r].contextIndex + 1) :
                     context'[rens[r].contextStack[i]][rens[r].threadID]
                       = RecordedBefore(r, rens[r].contextStack[i])
               /\ held' = held
               /\ rens'[r].nfree = rens[r].nfree
               /\ futures'[f].st = "rejected"]_vars

\* A resumed renderer was destroyed after it threw inside a provider of its
\* own that overrode a slot it had re-seeded, and the slot holds the value
\* from before both.
C26_Witness ==
  \E f \in 1 .. Len(futures) :
     /\ futures[f].kind = "resume" /\ futures[f].st = "rejected" /\ futures[f].rid # 0
     /\ LET r == futures[f].rid
        IN  /\ rens[r].threw /\ rens[r].exhausted
            /\ rens[r].contextIndex = 1
            /\ rens[r].contextStack[1] = rens[r].contextStack[2]
            /\ rens[r].contextValueStack[1] # rens[r].contextValueStack[2]
            /\ context[rens[r].contextStack[1]][rens[r].threadID]
                  = rens[r].contextValueStack[1]

-----------------------------------------------------------------------------
(* Thread ids allocated and released, checked under SpecAsync *)

\* C27: once a renderer has finished (exhausted or destroyed), the thread id
\* its constructor allocated has been released: it is held only if a renderer
\* that has not finished allocated it again since.  Resuming pending subtrees
\* leaves no id behind.
C27_AllocationsReleased ==
  \A r \in Renderers :
     rens[r].exhausted /\ rens[r].allocated \in held =>
        \E q \in Renderers \ {r} :
           ~rens[q].exhausted /\ rens[q].allocated = rens[r].allocated

-----------------------------------------------------------------------------
(* Draining behind a future, checked under SpecAsync *)

\* A readAsync call of r has placed a future in the depth-0 buffer.
PlacedFuture(r) == \E i \in 1 .. Len(rens[r].pushed0) : rens[r].pushed0[i].f # 0

\* C28: in async mode, a renderer none of whose resolutions threw and whose
\* readAsync call placed a future in the depth-0 buffer, or met a pending
\* subtree, has an empty frame stack when that call is over, whatever the
\* byte budget; and a resumed renderer is only ever constructed when the
\* frame stack of such a parent is empty.
C28_DrainsBehindFuture ==
  /\ [](\A r \in Renderers :
          /\ rens[r].kind = "async"
          /\ ~rens[r].threw
          /\ PlacedFuture(r) \/ \E f \in ResumeFutures : futures[f].owner = r
          => rens[r].stack = <<>> /\ rens[r].exhausted)
  /\ [][\A f \in ResumeFutures :
          futures[f].rid = 0 /\ futures'[f].rid # 0 /\ ~rens[futures[f].owner].threw
             => rens[futures[f].owner].stack = <<>>]_vars

\* A readAsync(1) call is waiting behind a future it placed in the depth-0
\* buffer: its renderer drained the frame stack, and a pending subtree of it
\* has been resumed since.
C28_Witness ==
  \E i \in 1 .. Len(reads) :
     LET r == reads[i].r
     IN  /\ reads[i].bytes = 1
         /\ PlacedFuture(r)
         /\ ~rens[r].threw
         /\ rens[r].stack = <<>>
         /\ \E f \in ResumeFutures : futures[f].owner = r /\ futures[f].rid # 0

-----------------------------------------------------------------------------
(* Unwinding to a boundary, checked under SpecSync *)

\* C29: in sync mode, when the fallback frame of a suspended boundary is
\* pushed, every provider entered between the boundary and the point of
\* suspension has been popped, every context slot of the session holds the
\* value it had outside those providers, and the buffers of the outer
\* boundaries and of what precedes the boundary hold what they held at the
\* suspension, followed by the marker of the suspended boundary.
C29_UnwindingPopsProviders ==
  \A r \in SyncSessions : rens[r].unwind.faults = {}

\* A session suspended beneath a provider entered inside the boundary, and a
\* consumer of that context in the fallback has rendered the default value.
C29_Witness ==
  \E r \in SyncSessions :
     /\ rens[r].unwind.switched >= 1
     /\ rens[r].unwind.n >= 1
     /\ rens[r].nullReturned /\ ~rens[r].threw
     /\ \E i, j \in 1 .. Len(rens[r].emitted) :
           /\ i < j
           /\ rens[r].emitted[i] = "<!--$!-->"
           /\ rens[r].emitted[j] = DefaultValue
           /\ \A k \in 1 .. Len(rens[r].emitted) : rens[r].emitted[k] # "1"

-----------------------------------------------------------------------------
(* suspenseDepth and the buffers, checked under SpecBoth *)

\* C30: between any two loop iterations of read and readAsync, and between
\* calls, suspenseDepth is the number of boundary frames on the frame stack
\* and is not negative; in async mode outQueue has suspenseDepth + 1 buffers,
\* none of them empty, each starting with a string.
C30_DepthCountsBoundaries ==
  \A r \in Renderers :
     /\ rens[r].depth.faults = {}
     /\ DepthFaults(rens[r]) = {}

\* An async session has been inside a boundary nested in another one and has
\* rolled both up: the depth-0 buffer holds a string and then a future.
C30_Witness ==
  \E r \in AsyncSessions :
     /\ rens[r].depth.max >= 2
     /\ rens[r].suspenseDepth = 0
     /\ Len(rens[r].outQueue[1]) >= 2
     /\ rens[r].outQueue[1][2].f # 0

-----------------------------------------------------------------------------
(* What read holds back, checked under SpecSync *)

\* C31: a read call that returns a string returns with suspenseDepth = 0 and
\* with out[0] as the only buffer of the call: what was buffered for a
\* boundary has been merged into out[0] or dropped with the boundary.
C31_ReturnsOutsideBoundaries ==
  \A r \in SyncSessions : ~rens[r].ret.open /\ ~rens[r].ret.extra

\* A session read in pieces of one character has been two boundaries deep,
\* has replaced a boundary by its fallback, and its latest call returned a
\* string with frames left on the stack.
C31_Witness ==
  \E r \in SyncSessions :
     /\ rens[r].ret.n >= 2
     /\ rens[r].depth.max >= 2
     /\ rens[r].unwind.switched >= 1
     /\ rens[r].call.got = "full"
     /\ rens[r].stack # <<>>

-----------------------------------------------------------------------------
(* readAsync calls that overlap, checked under SpecOverlap *)

\* The readAsync calls on r that have not settled.
Waiting(r) == {i \in 1 .. Len(reads) : reads[i].r = r}

\* renderer.readAsync(bytes), issued while an earlier call on r waits.
ReadAsyncOverlapping(r, bytes) ==
  /\ rens[r].kind = "async"
  /\ ~rens[r].isChildRenderer
  /\ Waiting(r) # {}
  /\ Cardinality(Waiting(r)) < MaxWaiting
  /\ Commit(readAsync(World, r, bytes))

\* The promise the waiting call reads[i] waits for has resolved, and the
\* callbacks registered on it before the one of reads[i] have run.
FlattenCallbackInOrder(i) ==
  /\ \A j \in 1 .. (i - 1) : reads[j].f # reads[i].f
  /\ FlattenCallback(i)

NextOverlap ==
  \/ \E t \in OverlapTrees : NewAsync(t, FALSE, 1)
  \/ \E r \in 1 .. Len(rens), b \in {1, Infinity} : ReadAsync(r, b)
  \/ \E r \in 1 .. Len(rens), b \in {1, Infinity} : ReadAsyncOverlapping(r, b)
  \/ \E i \in 1 .. Len(reads) : FlattenCallbackInOrder(i)
  \/ \E f \in 1 .. Len(futures) : Resume(f)
  \/ \E p \in {1} : Resolve(p)

SpecOverlap == Init /\ [][NextOverlap]_vars

\* C32: also when readAsync calls on a session overlap, once the session is
\* exhausted, no call is waiting and the depth-0 buffer is flushed, what the
\* calls returned is every fragment that was pushed to the depth-0 buffer,
\* once each and in the order of the buffer.
C32_OverlappingReadsDeliverOnce ==
  \A r \in AsyncSessions :
     /\ rens[r].exhausted
     /\ Waiting(r) = {}
     /\ rens[r].outQueue[1] = <<StrItem(<<>>)>>
     /\ NoFailure(r)
     => rens[r].emitted = Expand(futures, rens[r].pushed0)

-----------------------------------------------------------------------------
(* The current thread id and dispatcher, checked under SpecCalls *)

\* Synchronous sessions that may read one another from inside a component,
\* and asynchronous sessions, their calls in any order.
NextCalls ==
  \/ \E t \in CallTrees : NewSyncAmong(t, FALSE, MaxSessions)
  \/ \E t \in FailTrees : NewAsync(t, FALSE, MaxSessions)
  \/ \E r \in 1 .. Len(rens), b \in {1, Infinity} : Read(r, b)
  \/ \E r \in 1 .. Len(rens), b \in {1, Infinity} : ReadAsync(r, b)
  \/ \E i \in 1 .. Len(reads) : FlattenCallback(i)
  \/ \E f \in 1 .. Len(futures) : Resume(f)
  \/ \E f \in 1 .. Len(futures) : ResumeCatch(f)
  \/ \E p \in {1} : Resolve(p)

SpecCalls == Init /\ [][NextCalls]_vars

\* C33: every read call and every synchronous part of a readAsync call,
\* whether it returns or throws and also when it is made from inside another
\* session's read, leaves the current thread id and the current dispatcher
\* as it found them; between the loop iterations of the call the current
\* thread id is the one of the session and the dispatcher the renderer's.
C33_CurrentThreadRestored ==
  /\ current = NoCurrent
  /\ \A r \in Renderers : rens[r].cur \subseteq {"nested"}

\* A read call made from inside another session's read has thrown, and the
\* other session went on rendering afterwards or threw in turn.
C33_Witness ==
  \E r, q \in SyncSessions :
     /\ r # q
     /\ "nested" \in rens[r].cur
     /\ rens[r].threw
     /\ rens[q].threw

-----------------------------------------------------------------------------
(* Boundaries in async mode, checked under SpecAsync *)

\* The boundary markers and text leaves of the primary content of a tree, in
\* document order, the content of a pending node in the place of the node.
RECURSIVE Skeleton(_)
Skeleton(nodes) ==
  IF nodes = <<>> THEN <<>>
  ELSE (CASE Head(nodes).k = "text" ->
               IF Head(nodes).s = "" THEN <<>> ELSE <<Head(nodes).s>>
          [] Head(nodes).k = "susp" ->
               <<"<!--$-->">> \o Skeleton(Head(nodes).ch) \o <<"<!--/$-->">>
          [] OTHER -> Skeleton(Head(nodes).ch))
       \o Skeleton(Tail(nodes))

IsSkeletonToken(t) == IsTextToken(t) \/ t \in {"<!--$-->", "<!--/$-->", "<!--$!-->"}

\* C34: in async mode no fallback frame is ever on the frame stack of a
\* renderer and the suspended marker is never returned; a session that ran to
\* its end without a failure has returned, for every boundary, the opening
\* marker, the output of the primary content with the resumed content in the
\* place of each pending node, and the closing marker.
C34_AsyncNeverFallsBack ==
  /\ \A r \in Renderers : rens[r].kind = "async" => ~rens[r].sawFallback
  /\ \A r \in AsyncSessions :
        /\ \A i \in 1 .. Len(rens[r].emitted) : rens[r].emitted[i] # "<!--$!-->"
        /\ rens[r].nullReturned /\ ~rens[r].aborted /\ NoFailure(r) =>
              SelectSeq(rens[r].emitted, IsSkeletonToken) = Skeleton(rens[r].children)

\* A session whose tree has a boundary with a fallback text ran to its end
\* after a pending subtree inside that boundary was resumed.
C34_Witness ==
  \E r \in AsyncSessions :
     /\ rens[r].nullReturned /\ ~rens[r].aborted /\ NoFailure(r)
     /\ \E i \in 1 .. Len(rens[r].children) :
           rens[r].children[i].k = "susp" /\ rens[r].children[i].fb # <<>>
     /\ \E f \in ResumeFutures :
           /\ futures[f].owner = r
           /\ futures[f].st = "resolved"
           /\ futures[f].val # <<>>


====
